---- MODULE Spec2Model ----
(***************************************************************************)
(* The analysis endpoint of the demo application                           *)
(* (examples/demo/app/api/analyze/route.ts): request validation, the       *)
(* concurrent per-target analyses, the sequential aggregation of their     *)
(* diagnostics into per-file buckets, the cross-file duplicate-dependency  *)
(* detector and the response.                                              *)
(*                                                                         *)
(* Encoding of JavaScript values.                                          *)
(*  - A path string is the sequence of its '/'-separated components:       *)
(*    "app/page.tsx" is <<"app", "page.tsx">>, "./A.tsx" is                *)
(*    <<".", "A.tsx">>, the empty string is <<"">>.  This is               *)
(*    String.split('/'), a bijection between strings and non-empty         *)
(*    sequences of '/'-free strings.  The empty sequence stands for        *)
(*    undefined (no string at all).                                        *)
(*  - An object is a record/function whose DOMAIN is its set of own keys.  *)
(*  - A Map or a plain object whose iteration order the code relies on is  *)
(*    a sequence of entries in insertion order.                            *)
(***************************************************************************)
EXTENDS Integers, Sequences, FiniteSets, TLC

(***************************************************************************)
(* Bounds of the model.                                                    *)
(***************************************************************************)
\* longest analysisTargets list of a request
MaxTargets == 2
\* most diagnostics the per-target analyses of one request return in total
MaxDiags == 2
\* largest measured duration of one analysis (milliseconds)
MaxDuration == 2

(***************************************************************************)
(* Strings and paths.                                                      *)
(***************************************************************************)
Absent == << >>
EmptyString == <<"">>

\* s.replace(/^\.\//, '')
StripDotSlash(s) == IF Len(s) >= 2 /\ s[1] = "." THEN Tail(s) ELSE s

\* s.endsWith(`/${k}`)
EndsWithSlash(s, k) ==
  /\ Len(s) > Len(k)
  /\ SubSeq(s, Len(s) - Len(k) + 1, Len(s)) = k

\* s.split('/').pop()
BaseName(s) == <<s[Len(s)]>>

\* truthiness of a string value (undefined and '' are falsy)
Truthy(s) == s # Absent /\ s # EmptyString

PrefixDotSlash(s) == <<".">> \o s

SeqToSet(s) == {s[i] : i \in 1..Len(s)}

RECURSIVE SeqSum(_)
SeqSum(s) == IF s = << >> THEN 0 ELSE Head(s) + SeqSum(Tail(s))

(***************************************************************************)
(* Maps that are only looked up (codeLookup, routeLookup, durationsByFile, *)
(* the key and contributor sets): functions on their set of keys.          *)
(***************************************************************************)
EmptyMap == [k \in {} |-> 0]
MapHas(m, k) == k \in DOMAIN m
MapSet(m, k, v) == [x \in (DOMAIN m) \cup {k} |-> IF x = k THEN v ELSE m[x]]
\* map.get(k) ?? dflt
MapGet(m, k, dflt) == IF k \in DOMAIN m THEN m[k] ELSE dflt

(***************************************************************************)
(* Contexts.  NoContext is `undefined`; a context object is a record whose *)
(* keys are among routeConfig, clientBundles, route and other keys.        *)
(***************************************************************************)
NoContext == [absent |-> TRUE]
IsContext(c) == c # NoContext

MutSpreadFirstWins(a, b) ==
  LET da == IF a # [absent |-> TRUE] THEN DOMAIN a ELSE {}
      db == IF b # [absent |-> TRUE] THEN DOMAIN b ELSE {}
  IN [k \in da \cup db |-> IF k \in da THEN a[k] ELSE b[k]]

\* { ...(a ?? {}), ...(b ?? {}) }
Spread(a, b) ==
  LET da == IF IsContext(a) THEN DOMAIN a ELSE {}
      db == IF IsContext(b) THEN DOMAIN b ELSE {}
  IN [k \in da \cup db |-> IF k \in db THEN b[k] ELSE a[k]]

ROUTE_SEGMENT_FILE_NAMES ==
  {"page.tsx", "layout.tsx", "default.tsx", "template.tsx", "error.tsx",
   "loading.tsx", "route.ts"}

MutSegmentExactNameOnly(fileName) ==
  \E seg \in ROUTE_SEGMENT_FILE_NAMES : fileName = <<seg>>

isRouteSegmentFile(fileName) ==
  \/ \E seg \in ROUTE_SEGMENT_FILE_NAMES : fileName = <<seg>>
  \/ \E seg \in ROUTE_SEGMENT_FILE_NAMES : EndsWithSlash(fileName, <<seg>>)

\* sanitizeContextForTarget without the removal of routeConfig.
MutSanitizeKeepsRouteConfig(context, fileName) ==
  IF ~IsContext(context) THEN NoContext ELSE context

sanitizeContextForTarget(context, fileName) ==
  IF ~IsContext(context) THEN NoContext
  ELSE IF "routeConfig" \notin DOMAIN context THEN context
  ELSE IF isRouteSegmentFile(fileName) THEN context
  ELSE LET rest == [k \in (DOMAIN context) \ {"routeConfig"} |-> context[k]]
       IN IF DOMAIN rest # {} THEN rest ELSE NoContext

buildTargetContext(target, sharedContext) ==
  IF ~IsContext(sharedContext) /\ ~IsContext(target.context) THEN NoContext
  ELSE Spread(sharedContext, target.context)

\* The matches of /export\s+const\s+(dynamic|...)\s*=\s*([^;]+);/g in a code
\* value, in source order: each is [name, raw], raw being the trimmed text
\* between '=' and ';'.  A code value without the field has no match.
RouteExports(code) == IF "exports" \in DOMAIN code THEN code.exports ELSE << >>

\* The values of a route config: a number (by its decimal digits), false,
\* or a string.
NumberValue(digits) == [type |-> "number", value |-> digits]
FalseValue == [type |-> "boolean", value |-> "false"]
StringValue(text) == [type |-> "string", value |-> text]

\* parseInt(value, 10) on the raw values of the model; NaN when the text does
\* not start with a number.
NaN == [type |-> "number", value |-> "NaN"]
parseInt(value) ==
  CASE value = "60" -> NumberValue("60")
    [] value = "60 * 60" -> NumberValue("60")
    [] value = "0" -> NumberValue("0")
    [] OTHER -> NaN

\* value.match(/^['"](.+)['"]$/): the text between the quotes, << >> when the
\* value is not a quoted string.
stringMatch(value) ==
  CASE value = "'force-dynamic'" -> <<"force-dynamic">>
    [] value = "\"edge\"" -> <<"edge">>
    [] value = "'auto'" -> <<"auto">>
    [] OTHER -> << >>

\* config[name] = value
ConfigSet(config, name, value) ==
  [k \in (DOMAIN config) \cup {name} |-> IF k = name THEN value ELSE config[k]]

RECURSIVE parseMatches(_, _)
parseMatches(config, matches) ==
  IF matches = << >> THEN config
  ELSE LET name == Head(matches).name
           value == Head(matches).raw
           next ==
             IF name = "revalidate"
             THEN IF value = "false" THEN ConfigSet(config, name, FalseValue)
                  ELSE IF parseInt(value) # NaN
                       THEN ConfigSet(config, name, parseInt(value))
                       ELSE config
             ELSE IF stringMatch(value) # << >>
                  THEN ConfigSet(config, name, StringValue(stringMatch(value)[1]))
                  ELSE config
       IN parseMatches(next, Tail(matches))

parseRouteConfigFromCode(code) == parseMatches(<< >>, RouteExports(code))

\* A routeConfig of null, and the truthiness of a routeConfig: an object is
\* truthy, null is not.
NullConfig == [type |-> "null", value |-> "null"]
TruthyConfig(routeConfig) == routeConfig # NullConfig

\* The mutant leaves the context's routeConfig in place.
MutCreateRequestNoReparse(target, scenario, sharedContext) ==
  [code     |-> target.code,
   fileName |-> target.fileName,
   context  |-> sanitizeContextForTarget(buildTargetContext(target, sharedContext),
                                         target.fileName)]

\* The analysis request of a target: its code, its file name and the
\* sanitized context; in the 'route-config' scenario a routeConfig that is
\* still there is replaced by the one parsed from the code.
createAnalysisRequest(target, scenario, sharedContext) ==
  LET context == sanitizeContextForTarget(buildTargetContext(target, sharedContext),
                                          target.fileName)
  IN [code     |-> target.code,
      fileName |-> target.fileName,
      context  |->
        IF /\ scenario = <<"route-config">>
           /\ IsContext(context)
           /\ "routeConfig" \in DOMAIN context
           /\ TruthyConfig(context.routeConfig)
        THEN [context EXCEPT !.routeConfig = parseRouteConfigFromCode(target.code)]
        ELSE context]

hasClientBundles(context) == IsContext(context) /\ "clientBundles" \in DOMAIN context

getRouteFromContext(context) ==
  IF IsContext(context) /\ "route" \in DOMAIN context THEN context.route ELSE Absent

(***************************************************************************)
(* Source texts.  A code value is what the handler reads of it: whether it *)
(* is a string at all, whether it is the empty string, and the top-level   *)
(* import declarations the TypeScript parser finds in it, each with its    *)
(* specifier text and the specifier literal's start and end offsets.       *)
(***************************************************************************)
NoCode == [defined |-> FALSE, blank |-> TRUE, imports |-> << >>]
IsStringCode(code) == code.defined
TruthyCode(code) == code.defined /\ ~code.blank

(***************************************************************************)
(* Diagnostics.  A diagnostic is [rule, level, message, loc, file, range]: *)
(* rule is NoRule for a Suggestion without a rule key, loc tells whether   *)
(* the diagnostic has a loc object, file is loc.file (Absent when there is *)
(* no loc or no loc.file), range is loc.range (Absent or <<from, to>>).    *)
(* Without loc there is neither file nor range; a loc of no file and no    *)
(* range is the object {}.  A message is the sequence of the pieces it is  *)
(* concatenated from.                                                      *)
(***************************************************************************)
NoRule == "<no rule>"

getDiagnosticKey(diag) ==
  <<IF diag.rule = NoRule THEN "suggestion" ELSE diag.rule,
    diag.message,
    IF diag.file = Absent THEN EmptyString ELSE diag.file,
    diag.range>>

(***************************************************************************)
(* diagnosticsByFile is a plain object filled in insertion order: a        *)
(* sequence of [key, diags] entries with pairwise distinct keys.           *)
(***************************************************************************)
HasBucket(dbf, k) == \E i \in 1..Len(dbf) : dbf[i].key = k
BucketKeys(dbf) == {dbf[i].key : i \in 1..Len(dbf)}
Bucket(dbf, k) ==
  IF HasBucket(dbf, k)
  THEN dbf[CHOOSE i \in 1..Len(dbf) : dbf[i].key = k].diags
  ELSE << >>
\* if (!diagnosticsByFile[key]) diagnosticsByFile[key] = []
EnsureBucket(dbf, k) ==
  IF HasBucket(dbf, k) THEN dbf ELSE Append(dbf, [key |-> k, diags |-> << >>])
\* diagnosticsByFile[key].push(diag)
PushDiag(dbf, k, diag) ==
  [i \in 1..Len(dbf) |->
     IF dbf[i].key = k THEN [dbf[i] EXCEPT !.diags = Append(@, diag)] ELSE dbf[i]]

\* Object.values(diagnosticsByFile).flat()
RECURSIVE FlattenBuckets(_)
FlattenBuckets(dbf) ==
  IF dbf = << >> THEN << >> ELSE Head(dbf).diags \o FlattenBuckets(Tail(dbf))

(***************************************************************************)
(* The aggregation state of the multi-target branch, as one record         *)
(*   dbf      diagnosticsByFile                                            *)
(*   durs     durationsByFile                                              *)
(*   keys     diagnosticKeysByFile                                         *)
(*   contribs durationContributorsByFile                                   *)
(* and the closures that update it.  A contributor id is tagged with the   *)
(* closure argument it came from: <<"target", entry.key>> for the          *)
(* per-target phase and <<"identity", ...>> for the detector's identity    *)
(* string (the file keys of the model contain no ':', an identity string   *)
(* contains three).                                                        *)
(***************************************************************************)
\* addDurationForFile without the contributor check.
MutAddDurationAlways(a, fileKey, duration, contributorId) ==
  [a EXCEPT !.durs = MapSet(@, fileKey, MapGet(@, fileKey, 0) + duration)]

addDurationForFile(a, fileKey, duration, contributorId) ==
  LET contributors == MapGet(a.contribs, fileKey, {})
  IN IF contributorId \notin contributors
     THEN [a EXCEPT !.durs = MapSet(@, fileKey, MapGet(@, fileKey, 0) + duration),
                    !.contribs = MapSet(@, fileKey, contributors \cup {contributorId})]
     ELSE a

\* assignDiagnostic without the key check.
MutAssignNoDedup(a, key, diag, duration, contributorId) ==
  addDurationForFile(
    [a EXCEPT !.dbf = PushDiag(EnsureBucket(@, key), key, diag)],
    key, duration, contributorId)

assignDiagnostic(a, key, diag, duration, contributorId) ==
  LET diagKey == getDiagnosticKey(diag)
      existingKeys == MapGet(a.keys, key, {})
  IN IF diagKey \in existingKeys
     THEN addDurationForFile(a, key, duration, contributorId)
     ELSE addDurationForFile(
            [a EXCEPT !.keys = MapSet(@, key, existingKeys \cup {diagKey}),
                      !.dbf = PushDiag(EnsureBucket(@, key), key, diag)],
            key, duration, contributorId)

MutBucketAlwaysOwnKey(entryKey, diag) == entryKey

\* The bucket a per-target diagnostic is assigned to (entry.diagnostics.forEach).
bucketFor(entryKey, diag) ==
  LET locFile == diag.file
      normalizedLoc == StripDotSlash(locFile)
      normalizedKey == StripDotSlash(entryKey)
  IN IF ~Truthy(locFile) THEN entryKey
     ELSE IF \/ normalizedLoc = normalizedKey
             \/ EndsWithSlash(normalizedLoc, normalizedKey)
             \/ EndsWithSlash(normalizedKey, normalizedLoc)
          THEN entryKey
          ELSE IF Truthy(BaseName(normalizedLoc)) THEN BaseName(normalizedLoc)
               ELSE entryKey

RECURSIVE assignEntryDiagnostics(_, _, _)
assignEntryDiagnostics(a, entry, j) ==
  IF j > Len(entry.diagnostics) THEN a
  ELSE assignEntryDiagnostics(
         assignDiagnostic(a, bucketFor(entry.key, entry.diagnostics[j]),
                          entry.diagnostics[j], entry.duration, <<"target", entry.key>>),
         entry, j + 1)

\* The body of analyses.forEach for one entry, on the bucket state.
aggregateEntry(a, entry) ==
  IF Len(entry.diagnostics) = 0
  THEN addDurationForFile([a EXCEPT !.dbf = EnsureBucket(@, entry.key)],
                          entry.key, entry.duration, <<"target", entry.key>>)
  ELSE assignEntryDiagnostics(a, entry, 1)

(***************************************************************************)
(* The names of the model and what the string operations of the detector   *)
(* make of them.                                                           *)
(***************************************************************************)
\* The components of the model's bundle file paths in String order (UTF-16
\* code units), as Array.prototype.sort() orders them.  None is a proper
\* prefix of another, so '/'-joined paths compare component by component.
NameOrder ==
  <<"A.tsx", "B.tsx", "C.tsx", "E.tsx", "Widget.tsx", "app", "page.tsx", "products",
    "src">>
NameRank(n) == CHOOSE i \in 1..Len(NameOrder) : NameOrder[i] = n

RECURSIVE PathLess(_, _)
PathLess(p, q) ==
  IF p = << >> THEN q # << >>
  ELSE IF q = << >> THEN FALSE
  ELSE IF Head(p) = Head(q) THEN PathLess(Tail(p), Tail(q))
  ELSE NameRank(Head(p)) < NameRank(Head(q))

\* Array.from(set).sort()
RECURSIVE SortPaths(_)
SortPaths(S) ==
  IF S = {} THEN << >>
  ELSE LET m == CHOOSE x \in S : \A y \in S \ {x} : PathLess(x, y)
       IN <<m>> \o SortPaths(S \ {m})

\* name.replace(/\.(js|mjs|cjs|ts|tsx)$/i, '')
StripExtension(n) ==
  CASE n = "lib.js" -> "lib"
    [] n = "util.js" -> "util"
    [] n = "A.tsx" -> "A"
    [] n = "B.tsx" -> "B"
    [] n = "C.tsx" -> "C"
    [] n = "Widget.tsx" -> "Widget"
    [] n = "page.tsx" -> "page"
    [] n = "E.tsx" -> "E"
    [] OTHER -> n

\* `${name}.js`
WithJs(n) ==
  CASE n = "lib" -> "lib.js"
    [] n = "util" -> "util.js"
    [] OTHER -> "<other>.js"

\* The text matched by [^/]+ after a leading "app" inside the first path
\* component, or "" when nothing is left of the component.  The one name
\* of the model that begins with "app" is "app" itself.
RestAfterApp(n) == IF n = "app" THEN "" ELSE "<no app prefix>"
StartsWithApp(n) == n = "app"

\* `${specText}.js` for a specifier text of several path components
SpecifierWithJs(s) == [s EXCEPT ![Len(s)] = WithJs(@)]

extractRouteFromComponentPath(componentPath) ==
  LET normalized == StripDotSlash(componentPath)
  IN IF normalized = Absent THEN Absent
     ELSE IF StartsWithApp(normalized[1]) /\ RestAfterApp(normalized[1]) # ""
       THEN <<"", RestAfterApp(normalized[1])>>
     ELSE IF StartsWithApp(normalized[1]) /\ Len(normalized) >= 2 /\ normalized[2] # ""
       THEN <<"", normalized[2]>>
     ELSE IF Len(normalized) >= 2 /\ normalized[1] # ""
       THEN <<"", normalized[1]>>
     ELSE Absent

(***************************************************************************)
(* buildCodeLookup and buildRouteLookup.                                   *)
(***************************************************************************)
codeLookupAdd(lookup, target) ==
  LET normalizedFileName == StripDotSlash(target.fileName)
      l1 == MapSet(lookup, normalizedFileName, target.code)
      l2 == IF Truthy(BaseName(normalizedFileName))
            THEN MapSet(l1, BaseName(normalizedFileName), target.code) ELSE l1
      normalizedKey == StripDotSlash(target.fileKey)
      l3 == MapSet(l2, normalizedKey, target.code)
      l4 == IF Truthy(BaseName(normalizedKey))
            THEN MapSet(l3, BaseName(normalizedKey), target.code) ELSE l3
  IN IF Truthy(target.fileKey) THEN l4 ELSE l2

RECURSIVE buildCodeLookupFrom(_, _)
buildCodeLookupFrom(lookup, targets) ==
  IF targets = << >> THEN lookup
  ELSE buildCodeLookupFrom(codeLookupAdd(lookup, Head(targets)), Tail(targets))

buildCodeLookup(targets) == buildCodeLookupFrom(EmptyMap, targets)

\* AddUnique without the membership test.
MutAddAlways(s, x) == Append(s, x)

\* set.add(x) on a Set kept in insertion order
AddUnique(s, x) == IF x \in SeqToSet(s) THEN s ELSE Append(s, x)

addRoute(lookup, filePath, routeValue) ==
  IF ~Truthy(routeValue) THEN lookup
  ELSE LET normalized == StripDotSlash(filePath)
           l1 == MapSet(lookup, normalized,
                        AddUnique(MapGet(lookup, normalized, << >>), routeValue))
           baseName == BaseName(normalized)
       IN IF Truthy(baseName)
          THEN MapSet(l1, baseName, AddUnique(MapGet(l1, baseName, << >>), routeValue))
          ELSE l1

RECURSIVE addBundleRoutes(_, _, _)
addBundleRoutes(lookup, bundles, routeValue) ==
  IF bundles = << >> THEN lookup
  ELSE addBundleRoutes(addRoute(lookup, Head(bundles).filePath, routeValue),
                       Tail(bundles), routeValue)

routeLookupAdd(lookup, target) ==
  LET fromContext == getRouteFromContext(target.context)
      routeValue == IF fromContext # Absent THEN fromContext
                    ELSE extractRouteFromComponentPath(target.fileName)
      l1 == addRoute(lookup, target.fileName, routeValue)
      l2 == IF Truthy(target.fileKey) THEN addRoute(l1, target.fileKey, routeValue) ELSE l1
      bundles == IF hasClientBundles(target.context)
                 THEN target.context.clientBundles ELSE << >>
  IN addBundleRoutes(l2, bundles, routeValue)

RECURSIVE buildRouteLookupFrom(_, _)
buildRouteLookupFrom(lookup, targets) ==
  IF targets = << >> THEN lookup
  ELSE buildRouteLookupFrom(routeLookupAdd(lookup, Head(targets)), Tail(targets))

buildRouteLookup(targets) == buildRouteLookupFrom(EmptyMap, targets)

(***************************************************************************)
(* generateDuplicateDiagnostics.                                           *)
(***************************************************************************)
\* A bundle record whose chunks are not iterable makes `for (const chunk of
\* bundle.chunks)` throw a TypeError.
ChunksIterable(bundle) == "chunks" \in DOMAIN bundle

\* chunkIndexAdd with the component set replaced, not extended.
MutChunkIndexOverwrite(index, chunk, path) ==
  IF \E i \in 1..Len(index) : index[i].chunk = chunk
  THEN [i \in 1..Len(index) |->
          IF index[i].chunk = chunk
          THEN [index[i] EXCEPT !.components = {path}] ELSE index[i]]
  ELSE Append(index, [chunk |-> chunk, components |-> {path}])

\* chunkToComponents: a Map in insertion order, [chunk, components] entries.
chunkIndexAdd(index, chunk, path) ==
  IF \E i \in 1..Len(index) : index[i].chunk = chunk
  THEN [i \in 1..Len(index) |->
          IF index[i].chunk = chunk
          THEN [index[i] EXCEPT !.components = @ \cup {path}] ELSE index[i]]
  ELSE Append(index, [chunk |-> chunk, components |-> {path}])

RECURSIVE chunkIndexAddAll(_, _, _)
chunkIndexAddAll(index, chunks, path) ==
  IF chunks = << >> THEN index
  ELSE chunkIndexAddAll(chunkIndexAdd(index, Head(chunks), path), Tail(chunks), path)

RECURSIVE chunkToComponents(_, _)
chunkToComponents(index, bundles) ==
  IF bundles = << >> THEN index
  ELSE chunkToComponents(
         chunkIndexAddAll(index, Head(bundles).chunks, StripDotSlash(Head(bundles).filePath)),
         Tail(bundles))

\* The import specifier a chunk is positioned at: the first whose text
\* matches the chunk, else the first import; << >> when there is none.
specifierMatches(specText, chunk) ==
  LET chunkBase == BaseName(chunk)
      chunkName == <<StripExtension(chunkBase[1])>>
  IN \/ specText = chunk
     \/ specText = chunkBase
     \/ specText = chunkName
     \/ SpecifierWithJs(specText) = chunkBase
     \/ SpecifierWithJs(specText) = chunk

targetSpecifier(imports, chunk) ==
  LET matching == {i \in 1..Len(imports) : specifierMatches(imports[i].spec, chunk)}
  IN IF matching # {}
     THEN <<imports[CHOOSE i \in matching : \A j \in matching : i <= j]>>
     ELSE IF Len(imports) > 0 THEN <<imports[1]>> ELSE << >>

RECURSIVE AddAllUnique(_, _)
AddAllUnique(s, xs) ==
  IF xs = << >> THEN s ELSE AddAllUnique(AddUnique(s, Head(xs)), Tail(xs))

\* addRoutesFromLookup(key): the truthy routes the lookup has under key
routesFromLookup(candidates, routeLookup, key) ==
  IF ~Truthy(key) THEN candidates
  ELSE AddAllUnique(candidates,
                    SelectSeq(MapGet(routeLookup, StripDotSlash(key), << >>), Truthy))

RECURSIVE JoinNames(_)
JoinNames(paths) ==
  IF paths = << >> THEN << >>
  ELSE IF Len(paths) = 1 THEN BaseName(paths[1])
  ELSE BaseName(paths[1]) \o <<", ">> \o JoinNames(Tail(paths))

duplicateMessage(routeContext, chunk, otherComponents) ==
  <<"Duplicate dependencies">>
  \o (IF Truthy(routeContext) THEN <<" in route '">> \o routeContext \o <<"'">> ELSE << >>)
  \o <<": ">> \o chunk \o <<" (also imported by ">> \o JoinNames(otherComponents)
  \o <<"). ",
       "Consider extracting shared code to a common module or using dynamic imports.">>

\* The diagnostics of one component of one shared chunk.
componentDiagnostics(chunk, components, componentPath, codeLookup, routeLookup) ==
  LET otherComponents == SelectSeq(components, LAMBDA item : item # componentPath)
      baseName == BaseName(componentPath)
      direct == MapGet(codeLookup, componentPath, NoCode)
      baseLookup == MapGet(codeLookup, baseName, NoCode)
      prefixedLookup == MapGet(codeLookup, PrefixDotSlash(componentPath), NoCode)
      code == IF TruthyCode(direct) THEN direct
              ELSE IF TruthyCode(baseLookup) THEN baseLookup
              ELSE IF TruthyCode(prefixedLookup) THEN prefixedLookup
              ELSE NoCode
      resolvedFilePath ==
        IF ~TruthyCode(direct) /\ TruthyCode(baseLookup) THEN baseName ELSE componentPath
      spec == IF TruthyCode(code) THEN targetSpecifier(code.imports, chunk) ELSE << >>
      range == IF spec # << >> THEN <<spec[1].from, spec[1].to>> ELSE <<0, 0>>
      c1 == routesFromLookup(<< >>, routeLookup, componentPath)
      c2 == routesFromLookup(c1, routeLookup, baseName)
      c3 == routesFromLookup(c2, routeLookup, PrefixDotSlash(componentPath))
      c4 == routesFromLookup(c3, routeLookup, resolvedFilePath)
      extractedRoute == extractRouteFromComponentPath(componentPath)
      routeCandidates ==
        IF Truthy(extractedRoute) /\ extractedRoute # <<"", "components">>
        THEN AddUnique(c4, extractedRoute) ELSE c4
      routesToEmit == IF Len(routeCandidates) > 0 THEN routeCandidates ELSE <<Absent>>
  IN IF Len(otherComponents) = 0 THEN << >>
     ELSE [r \in 1..Len(routesToEmit) |->
             [key |-> baseName,
              identity |-> <<componentPath, chunk, otherComponents, routesToEmit[r]>>,
              diag |-> [rule |-> "duplicate-dependencies",
                        level |-> "warn",
                        message |-> duplicateMessage(routesToEmit[r], chunk, otherComponents),
                        loc |-> TRUE,
                        file |-> resolvedFilePath,
                        range |-> range]]]

RECURSIVE chunkDiagnostics(_, _, _, _, _)
chunkDiagnostics(chunk, components, rest, codeLookup, routeLookup) ==
  IF rest = << >> THEN << >>
  ELSE componentDiagnostics(chunk, components, Head(rest), codeLookup, routeLookup)
       \o chunkDiagnostics(chunk, components, Tail(rest), codeLookup, routeLookup)

RECURSIVE indexDiagnostics(_, _, _)
indexDiagnostics(index, codeLookup, routeLookup) ==
  IF index = << >> THEN << >>
  ELSE (IF Cardinality(Head(index).components) < 2 THEN << >>
        ELSE LET components == SortPaths(Head(index).components)
             IN chunkDiagnostics(Head(index).chunk, components, components,
                                 codeLookup, routeLookup))
       \o indexDiagnostics(Tail(index), codeLookup, routeLookup)

\* Defined when every bundle record has iterable chunks.
generateDuplicateDiagnostics(bundles, codeLookup, routeLookup) ==
  IF Len(bundles) = 0 THEN << >>
  ELSE indexDiagnostics(chunkToComponents(<< >>, bundles), codeLookup, routeLookup)

generateDuplicateDiagnosticsThrows(bundles) ==
  \E i \in 1..Len(bundles) : ~ChunksIterable(bundles[i])

(***************************************************************************)
(* The bundle records handed to the detector: bundleMap, keyed by          *)
(* filePath, filled from the shared context and then from every target.    *)
(***************************************************************************)
bundleMapSet(bundleMap, bundle) ==
  IF \E i \in 1..Len(bundleMap) : bundleMap[i].filePath = bundle.filePath
  THEN [i \in 1..Len(bundleMap) |->
          IF bundleMap[i].filePath = bundle.filePath THEN bundle ELSE bundleMap[i]]
  ELSE Append(bundleMap, bundle)

RECURSIVE collectBundles(_, _)
collectBundles(bundleMap, bundles) ==
  IF bundles = << >> THEN bundleMap
  ELSE collectBundles(bundleMapSet(bundleMap, Head(bundles)), Tail(bundles))

RECURSIVE collectTargetBundles(_, _)
collectTargetBundles(bundleMap, targets) ==
  IF targets = << >> THEN bundleMap
  ELSE collectTargetBundles(
         IF hasClientBundles(Head(targets).context)
         THEN collectBundles(bundleMap, Head(targets).context.clientBundles)
         ELSE bundleMap,
         Tail(targets))

bundleEntries(sharedContext, targets) ==
  collectTargetBundles(
    IF hasClientBundles(sharedContext)
    THEN collectBundles(<< >>, sharedContext.clientBundles) ELSE << >>,
    targets)

\* The same loop with every diagnostic assigned under its component path.
RECURSIVE MutAssignUnderComponentPath(_, _, _)
MutAssignUnderComponentPath(a, dups, processed) ==
  IF dups = << >> THEN a
  ELSE IF Head(dups).identity \in processed
       THEN MutAssignUnderComponentPath(a, Tail(dups), processed)
       ELSE MutAssignUnderComponentPath(
              assignDiagnostic(a, Head(dups).identity[1], Head(dups).diag, 0,
                               <<"identity", Head(dups).identity>>),
              Tail(dups), processed \cup {Head(dups).identity})

\* The same loop with every diagnostic counted as one unit of duration.
RECURSIVE MutAssignCountsDuration(_, _, _)
MutAssignCountsDuration(a, dups, processed) ==
  IF dups = << >> THEN a
  ELSE IF Head(dups).identity \in processed
       THEN MutAssignCountsDuration(a, Tail(dups), processed)
       ELSE MutAssignCountsDuration(
              assignDiagnostic(a, Head(dups).key, Head(dups).diag, 1,
                               <<"identity", Head(dups).identity>>),
              Tail(dups), processed \cup {Head(dups).identity})

\* duplicateDiagnostics.forEach: each identity is assigned once, with
\* duration 0 and the identity as contributor.
RECURSIVE assignDuplicates(_, _, _)
assignDuplicates(a, dups, processed) ==
  IF dups = << >> THEN a
  ELSE IF Head(dups).identity \in processed
       THEN assignDuplicates(a, Tail(dups), processed)
       ELSE assignDuplicates(
              assignDiagnostic(a, Head(dups).key, Head(dups).diag, 0,
                               <<"identity", Head(dups).identity>>),
              Tail(dups), processed \cup {Head(dups).identity})

(***************************************************************************)
(* The requests of the model.                                              *)
(***************************************************************************)
CodeA ==
  [defined |-> TRUE, blank |-> FALSE,
   imports |-> <<[spec |-> <<"util">>, from |-> 7, to |-> 13],
                 [spec |-> <<"lib">>, from |-> 30, to |-> 35]>>]
CodeB ==
  [defined |-> TRUE, blank |-> FALSE,
   imports |-> <<[spec |-> <<"lib">>, from |-> 18, to |-> 23]>>]
CodePlain == [defined |-> TRUE, blank |-> FALSE, imports |-> << >>]

RouteConfigValue == [type |-> "object", value |-> "force-dynamic+revalidate"]

\* A.tsx, a component that pulls in chunk lib.js
TargetA ==
  [falsy |-> FALSE, fileKey |-> Absent, fileName |-> <<"A.tsx">>, code |-> CodeA,
   context |-> [clientBundles |->
                  <<[filePath |-> <<"A.tsx">>, chunks |-> << <<"lib.js">> >>]>>]]
\* B.tsx, a component sharing lib.js, analysed with a context carrying routeConfig
TargetB ==
  [falsy |-> FALSE, fileKey |-> Absent, fileName |-> <<"B.tsx">>, code |-> CodeB,
   context |-> [routeConfig |-> RouteConfigValue,
                clientBundles |->
                  <<[filePath |-> <<".", "B.tsx">>, chunks |-> << <<"lib.js">> >>]>>]]
\* app/page.tsx, a route segment file with its routeConfig
TargetPage ==
  [falsy |-> FALSE, fileKey |-> Absent, fileName |-> <<"app", "page.tsx">>,
   code |-> CodePlain, context |-> [routeConfig |-> RouteConfigValue]]
\* Widget.tsx, which the caller files under the key app/page.tsx
TargetWidget ==
  [falsy |-> FALSE, fileKey |-> <<"app", "page.tsx">>, fileName |-> <<"Widget.tsx">>,
   code |-> CodePlain, context |-> NoContext]
\* C.tsx, whose bundle record carries no chunks list
TargetC ==
  [falsy |-> FALSE, fileKey |-> Absent, fileName |-> <<"C.tsx">>, code |-> CodePlain,
   context |-> [clientBundles |-> <<[filePath |-> <<"C.tsx">>]>>]]
\* null in the analysisTargets array
TargetNull ==
  [falsy |-> TRUE, fileKey |-> Absent, fileName |-> Absent, code |-> NoCode,
   context |-> NoContext]
\* { fileName: 'A.tsx' }: no code
TargetNoCode ==
  [falsy |-> FALSE, fileKey |-> Absent, fileName |-> <<"A.tsx">>, code |-> NoCode,
   context |-> NoContext]
\* { code: '...' }: no fileName
TargetNoFileName ==
  [falsy |-> FALSE, fileKey |-> Absent, fileName |-> Absent, code |-> CodePlain,
   context |-> NoContext]

ValidTargets == {TargetA, TargetB, TargetPage, TargetWidget, TargetC}
InvalidTargets == {TargetNull, TargetNoCode, TargetNoFileName}
TargetPool == ValidTargets \cup InvalidTargets

SharedContexts == {NoContext, [routeConfig |-> RouteConfigValue]}

SeqsUpTo(S, n) == UNION {[1..m -> S] : m \in 0..n}

MultiRequests ==
  {[analysisTargets |-> ts, context |-> sc, code |-> NoCode, fileName |-> Absent,
    fileKey |-> Absent] :
     ts \in SeqsUpTo(TargetPool, MaxTargets) \ {<< >>}, sc \in SharedContexts}

SingleRequests ==
  {[analysisTargets |-> << >>, context |-> NoContext, code |-> c, fileName |-> f,
    fileKey |-> k] :
     c \in {NoCode, CodeA}, f \in {Absent, <<"A.tsx">>},
     k \in {Absent, EmptyString, <<"editor-1">>}}

Requests == MultiRequests \cup SingleRequests

\* The least element of a set of numbers.
First(S) == CHOOSE i \in S : \A j \in S : i <= j

(***************************************************************************)
(* The expansion of coarse duplicate-dependencies diagnostics              *)
(* (expandDuplicateDependenciesDiagnostics).  The scenarios are data of    *)
(* the demo outside this code: each has an id, the code of demo.tsx and,   *)
(* possibly, context files.                                                *)
(***************************************************************************)
MaxExpandDiags == 2

DemoCode ==
  [defined |-> TRUE, blank |-> FALSE,
   imports |-> <<[spec |-> <<"chart-lib">>, from |-> 22, to |-> 33],
                 [spec |-> <<"date-fns">>, from |-> 58, to |-> 68],
                 [spec |-> <<"react">>, from |-> 90, to |-> 97]>>]
HeaderCode ==
  [defined |-> TRUE, blank |-> FALSE,
   imports |-> <<[spec |-> <<"date-fns">>, from |-> 24, to |-> 34],
                 [spec |-> <<"lodash">>, from |-> 55, to |-> 63]>>]
EmptyCode == [defined |-> TRUE, blank |-> TRUE, imports |-> << >>]
\* A file whose first statement is `const x = require('lodash');`, followed
\* by an import.
LegacyCode ==
  [defined |-> TRUE, blank |-> FALSE, requireFirst |-> TRUE,
   imports |-> <<[spec |-> <<"date-fns">>, from |-> 50, to |-> 60]>>]

scenarios ==
  <<[id |-> <<"duplicate-dependencies">>, code |-> DemoCode,
     contextFiles |-> <<[fileName |-> <<"Header.tsx">>, code |-> HeaderCode],
                        [fileName |-> <<"Empty.tsx">>, code |-> EmptyCode]>>],
    [id |-> <<"route-config">>, code |-> DemoCode, contextFiles |-> Absent],
    [id |-> <<"real-world-app">>, code |-> DemoCode,
     contextFiles |-> <<[fileName |-> <<"Header.tsx">>, code |-> HeaderCode],
                        [fileName |-> <<"Legacy.tsx">>, code |-> LegacyCode],
                        [fileName |-> <<"Empty.tsx">>, code |-> EmptyCode]>>]>>

\* scenarios.find((s) => s.id === scenarioId): << >> when there is none
findScenario(scenario) ==
  LET found == {i \in 1..Len(scenarios) : scenarios[i].id = scenario}
  IN IF found = {} THEN << >> ELSE <<scenarios[First(found)]>>

\* file.includes(name) for the file names of the model: name is a run of
\* whole path components of file, or the text of name lies inside a longer
\* component (MyHeader.tsx contains Header.tsx).
ContainedIn == {<<"Header.tsx", "MyHeader.tsx">>}
includes(file, name) ==
  \/ \E i \in 1..Len(file) :
       i + Len(name) - 1 <= Len(file) /\ SubSeq(file, i, i + Len(name) - 1) = name
  \/ Len(name) = 1 /\ \E i \in 1..Len(file) : <<name[1], file[i]>> \in ContainedIn

\* scenario.contextFiles?.find(...) for a diagnostic's loc.file
\* The find throws a TypeError when its callback runs for a diagnostic that
\* has a loc without a file: `diag.loc?.file.endsWith` stops at a missing
\* loc only, and reads endsWith of undefined otherwise.
findContextFileThrows(scenario, diag) ==
  /\ scenario.contextFiles # Absent
  /\ Len(scenario.contextFiles) > 0
  /\ diag.loc
  /\ diag.file = Absent

\* Defined when the find does not throw.
findContextFile(scenario, file) ==
  IF scenario.contextFiles = Absent \/ file = Absent THEN << >>
  ELSE LET cfs == scenario.contextFiles
           found == {i \in 1..Len(cfs) :
                       \/ file = cfs[i].fileName
                       \/ EndsWithSlash(file, cfs[i].fileName)
                       \/ includes(file, cfs[i].fileName)}
       IN IF found = {} THEN << >> ELSE <<cfs[First(found)]>>

\* The pieces of the model's messages that contain a '.', and the pieces
\* that contain a ':'.
HasDot(piece) ==
  piece \in {"). ", "Button.tsx", "DateDisplay.tsx", "chart.js",
             "Consider extracting shared code to a common module or using dynamic imports."}
HasColon(piece) == piece = ": "
ALSO_IMPORTED_BY == " (also imported by "

\* The package names the two regular expressions extract from a message:
\* the text after 'Duplicate dependencies...:' up to the first '.', and in it
\* every name that stands directly before ' (also imported by'.
duplicatedPackages(message) ==
  LET starts == {i \in 1..Len(message) : message[i] = "Duplicate dependencies"}
      colons == {i \in 1..Len(message) :
                   starts # {} /\ i > First(starts) /\ HasColon(message[i])}
      dots == {i \in 1..Len(message) :
                 colons # {} /\ i > First(colons) /\ HasDot(message[i])}
  IN IF starts = {} \/ colons = {} \/ dots = {} THEN {}
     ELSE {message[j - 1] : j \in {k \in 1..Len(message) :
              /\ message[k] = ALSO_IMPORTED_BY
              /\ k - 1 > First(colons)
              /\ k < First(dots)}}

\* What the loop pushes for one diagnostic.
expandedFor(scenario, diag) ==
  LET contextFile == findContextFile(scenario, diag.file)
      found == diag.file = <<"demo.tsx">> \/ contextFile # << >>
      sourceCode == IF diag.file = <<"demo.tsx">> THEN scenario.code
                    ELSE contextFile[1].code
      fileName == IF diag.file = <<"demo.tsx">> THEN <<"demo.tsx">>
                  ELSE contextFile[1].fileName
      matchedFile == diag.file
      packages == duplicatedPackages(diag.message)
      RECURSIVE fromImports(_)
      fromImports(imports) ==
        IF imports = << >> THEN << >>
        ELSE (IF Len(Head(imports).spec) = 1 /\ Head(imports).spec[1] \in packages
              THEN <<[diag EXCEPT !.loc = TRUE,
                                  !.file = IF Truthy(matchedFile) THEN matchedFile
                                           ELSE fileName,
                                  !.range = <<Head(imports).from, Head(imports).to>>]>>
              ELSE << >>)
             \o fromImports(Tail(imports))
  IN IF diag.rule # "duplicate-dependencies" THEN <<diag>>
     ELSE IF ~found THEN <<diag>>
     ELSE IF ~TruthyCode(sourceCode) \/ ~Truthy(fileName) THEN <<diag>>
     ELSE fromImports(sourceCode.imports)

pushedFor(scenario, diag) == expandedFor(scenario, diag)

RECURSIVE Concat(_)
Concat(parts) == IF parts = << >> THEN << >> ELSE Head(parts) \o Concat(Tail(parts))

\* The diagnostics each input diagnostic gives rise to, in input order.
expansionParts(diagnostics, scenario) ==
  LET found == findScenario(scenario)
  IN IF found = << >> THEN [i \in 1..Len(diagnostics) |-> <<diagnostics[i]>>]
     ELSE IF ~\E i \in 1..Len(diagnostics) : diagnostics[i].rule = "duplicate-dependencies"
     THEN [i \in 1..Len(diagnostics) |-> <<diagnostics[i]>>]
     ELSE [i \in 1..Len(diagnostics) |-> pushedFor(found[1], diagnostics[i])]

\* The loop throws when the source lookup of a coarse diagnostic throws.
expandDuplicateDependenciesDiagnosticsThrows(diagnostics, scenario) ==
  LET found == findScenario(scenario)
  IN /\ found # << >>
     /\ \E i \in 1..Len(diagnostics) :
          /\ diagnostics[i].rule = "duplicate-dependencies"
          /\ findContextFileThrows(found[1], diagnostics[i])

\* Defined when the loop does not throw.
expandDuplicateDependenciesDiagnostics(diagnostics, scenario) ==
  Concat(expansionParts(diagnostics, scenario))

\* The messages an analysis may give a coarse diagnostic.
Coarse(entries) ==
  <<"Duplicate dependencies", ": ">> \o entries
  \o <<"). ", "Consider extracting shared code to a common module or using dynamic imports.">>
Listed(package, importer) == <<package, ALSO_IMPORTED_BY, importer>>
AndThen == <<")", ", ">>

CoarseMessages ==
  { Coarse(Listed("chart-lib", "Chart") \o AndThen \o Listed("date-fns", "DateDisplay")),
    Coarse(Listed("chart-lib", "Button.tsx") \o AndThen
           \o Listed("date-fns", "DateDisplay.tsx")),
    Coarse(Listed("lodash", "Footer")),
    Coarse(Listed("moment", "Footer")),
    Coarse(Listed("chart.js", "Footer")),
    <<"shares 3 dependencies">> }

CoarseAt(message, file) ==
  [rule |-> "duplicate-dependencies", level |-> "warn", message |-> message,
   loc |-> TRUE, file |-> file, range |-> Absent]

\* sourceFile.statements.find(...): the first statement that is an import
\* declaration or a variable statement initialised by require(); << >> when
\* it is not an import declaration.
RequireFirst(code) == "requireFirst" \in DOMAIN code /\ code.requireFirst
firstImport(code) ==
  IF RequireFirst(code) \/ code.imports = << >> THEN << >> ELSE <<code.imports[1]>>

\* What fixContextFileDiagnostics makes of one diagnostic.
fixedFor(scenario, diag) ==
  LET contextFile == findContextFile(scenario, diag.file)
      hasMeaningfulRange == diag.range # Absent /\ diag.range[1] < diag.range[2]
  IN IF contextFile = << >> \/ ~diag.loc THEN diag
     ELSE IF hasMeaningfulRange THEN diag
     ELSE IF firstImport(contextFile[1].code) = << >> THEN diag
     ELSE [diag EXCEPT !.range = <<firstImport(contextFile[1].code)[1].from,
                                   firstImport(contextFile[1].code)[1].to>>]

\* The map throws when the context-file lookup of a diagnostic throws.
fixContextFileDiagnosticsThrows(diagnostics, scenario) ==
  LET found == findScenario(scenario)
  IN /\ found # << >>
     /\ \E i \in 1..Len(diagnostics) : findContextFileThrows(found[1], diagnostics[i])

\* Defined when the map does not throw.
fixContextFileDiagnostics(diagnostics, scenario) ==
  LET found == findScenario(scenario)
  IN IF found = << >> THEN diagnostics
     ELSE IF found[1].contextFiles = Absent THEN diagnostics
     ELSE [i \in 1..Len(diagnostics) |-> fixedFor(found[1], diagnostics[i])]

\* analyzeTargetPayload rejects when one of its scenario steps throws.
scenarioDiagnosticsThrows(diagnostics, scenario) ==
  /\ Truthy(scenario)
  /\ \/ expandDuplicateDependenciesDiagnosticsThrows(diagnostics, scenario)
     \/ /\ scenario # <<"duplicate-dependencies">>
        /\ fixContextFileDiagnosticsThrows(
             expandDuplicateDependenciesDiagnostics(diagnostics, scenario), scenario)

\* The diagnostics analyzeTargetPayload returns for those of the analyzer,
\* when no step throws.
scenarioDiagnostics(diagnostics, scenario) ==
  IF ~Truthy(scenario) THEN diagnostics
  ELSE LET expanded == expandDuplicateDependenciesDiagnostics(diagnostics, scenario)
       IN IF scenario # <<"duplicate-dependencies">>
          THEN fixContextFileDiagnostics(expanded, scenario)
          ELSE expanded

(***************************************************************************)
(* The analyzer (analyze of @rsc-xray/lsp-server) is outside this code.    *)
(* Its result for a request is any list of the diagnostics below with one  *)
(* of the durations below, or a rejection.  A diagnostic of the            *)
(* route-segment-config rule is located in the analysed file.              *)
(***************************************************************************)
ROUTE_RULE == "route-segment-config-conflict"

PlainSuggestion ==
  [rule |-> NoRule, level |-> "info", message |-> <<"m">>, loc |-> FALSE,
   file |-> Absent, range |-> Absent]
LocatedInSrcPage ==
  [rule |-> "r", level |-> "warn", message |-> <<"m">>, loc |-> TRUE,
   file |-> <<"src", "app", "page.tsx">>, range |-> <<0, 1>>]
RouteConflict(fileName) ==
  [rule |-> ROUTE_RULE, level |-> "error", message |-> <<"conflict">>,
   loc |-> TRUE, file |-> fileName, range |-> Absent]

CarriesRouteConfig(context) ==
  /\ IsContext(context)
  /\ "routeConfig" \in DOMAIN context
  /\ TruthyConfig(context.routeConfig)

\* What the analyzer may return besides in a scenario: coarse diagnostics
\* for demo.tsx and a diagnostic for a context file without a range.
UnpositionedAt(file) ==
  [rule |-> "r", level |-> "warn", message |-> <<"m">>, loc |-> TRUE,
   file |-> file, range |-> <<0, 0>>]
ScenarioAnalyzerDiagnostics(scenario) ==
  IF ~Truthy(scenario) THEN {} ELSE
  { CoarseAt(Coarse(Listed("chart-lib", "Chart") \o AndThen
                    \o Listed("date-fns", "DateDisplay")), <<"demo.tsx">>),
    CoarseAt(Coarse(Listed("moment", "Footer")), <<"demo.tsx">>),
    UnpositionedAt(<<"components", "Header.tsx">>),
    UnpositionedAt(Absent) }

AnalyzerDiagnostics(req) ==
  {PlainSuggestion, LocatedInSrcPage, RouteConflict(req.fileName)}

\* result.duration: the shortest and the longest duration of the model.
Durations == {1, MaxDuration}

AnalyzerRules(req) ==
  <<"r">> \o (IF CarriesRouteConfig(req.context) THEN <<ROUTE_RULE>> ELSE << >>)

DEFAULT_VERSION == "0.6.0"

(***************************************************************************)
(* State of one POST call.                                                 *)
(***************************************************************************)
VARIABLES
  body,                        \* the parsed request body
  pc,                          \* where the handler is
  started,                     \* indices of the targets whose analysis was invoked
  analyses,                    \* index -> AnalyzedTargetResult, or Pending
  codeLookup, routeLookup,
  diagnosticsByFile, durationsByFile,
  diagnosticKeysByFile, durationContributorsByFile,
  rulesExecutedSet, totalDuration, version,
  response,                    \* the response returned, or NoResponse
  ruleCall,                    \* the arguments of a call of the forbidden-import rule
  ruleDiagnostics,             \* the diagnostics that call returned
  call,                        \* the arguments of a call of one of the handler's functions
  returned                     \* what that call computed

vars ==
  <<body, pc, started, analyses, codeLookup, routeLookup, diagnosticsByFile,
    durationsByFile, diagnosticKeysByFile, durationContributorsByFile,
    rulesExecutedSet, totalDuration, version, response, ruleCall, ruleDiagnostics,
    call, returned>>

\* No call of the forbidden-import rule: the handler does not call it itself.
NoCall == [fn |-> "none"]
ruleVars == <<ruleCall, ruleDiagnostics, call, returned>>
handlerVars ==
  <<body, started, analyses, codeLookup, routeLookup, diagnosticsByFile,
    durationsByFile, diagnosticKeysByFile, durationContributorsByFile,
    rulesExecutedSet, totalDuration, version, response>>

aggVars ==
  <<diagnosticsByFile, durationsByFile, diagnosticKeysByFile,
    durationContributorsByFile, rulesExecutedSet, totalDuration, version>>

Pending == [pending |-> TRUE]
NoResponse == [status |-> 0]

IsMulti == Len(body.analysisTargets) > 0
Targets == body.analysisTargets
\* The target list the analyses run over: the single-target branch builds one
\* target from the body, with fileKey: body.fileKey ?? body.fileName.
SingleTarget ==
  [falsy |-> FALSE,
   fileKey |-> IF body.fileKey # Absent THEN body.fileKey ELSE body.fileName,
   fileName |-> body.fileName, code |-> body.code, context |-> body.context]
SharedContext == IF IsMulti THEN body.context ELSE NoContext
TargetAt(i) == IF IsMulti THEN Targets[i] ELSE SingleTarget
MutKeyIsFileName(target) == target.fileName

\* typeof body.scenario === 'string' ? body.scenario : undefined; a body
\* without the field has no scenario.
scenarioId == IF "scenario" \in DOMAIN body THEN body.scenario ELSE Absent

\* target.fileKey ?? target.fileName
KeyOf(target) == IF target.fileKey # Absent THEN target.fileKey ELSE target.fileName

InvalidRequest(message) ==
  [status |-> 400,
   body |-> [error |-> [code |-> "INVALID_REQUEST", message |-> message]]]

\* A failure answer that keeps the diagnostics of the analyses that had
\* succeeded.
MutErrorKeepsSucceeded(message) ==
  [status |-> 500,
   body |-> [diagnostics |->
               IF \E i \in 1..Len(analyses) : analyses[i] # Pending
               THEN analyses[CHOOSE i \in 1..Len(analyses) : analyses[i] # Pending].diagnostics
               ELSE << >>,
             duration |-> 0, rulesExecuted |-> << >>,
             version |-> DEFAULT_VERSION,
             error |-> [code |-> "INTERNAL_ERROR", message |-> message]]]

\* The catch block of POST.
InternalError(message) ==
  [status |-> 500,
   body |-> [diagnostics |-> << >>, duration |-> 0, rulesExecuted |-> << >>,
             version |-> DEFAULT_VERSION,
             error |-> [code |-> "INTERNAL_ERROR", message |-> message]]]

\* The handler's state when a request arrives.
HandlerStart ==
  /\ pc = "received"
  /\ ruleDiagnostics = << >>
  /\ returned = << >>
  /\ started = {}
  /\ analyses = << >>
  /\ codeLookup = EmptyMap
  /\ routeLookup = EmptyMap
  /\ diagnosticsByFile = << >>
  /\ durationsByFile = EmptyMap
  /\ diagnosticKeysByFile = EmptyMap
  /\ durationContributorsByFile = EmptyMap
  /\ rulesExecutedSet = << >>
  /\ totalDuration = 0
  /\ version = DEFAULT_VERSION
  /\ response = NoResponse

Init ==
  /\ body \in Requests
  /\ ruleCall = NoCall
  /\ call = NoCall
  /\ HandlerStart

\* find(): the first target that is falsy or lacks a string code or fileName
IsInvalidTarget(target) ==
  target.falsy \/ ~IsStringCode(target.code) \/ target.fileName = Absent

findInvalidTarget(targets) ==
  LET bad == {i \in 1..Len(targets) : IsInvalidTarget(targets[i])}
  IN IF bad = {} THEN << >> ELSE <<targets[CHOOSE i \in bad : \A j \in bad : i <= j]>>

Respond(r) ==
  /\ response' = r
  /\ pc' = "done"

\* The multi-target branch up to the await of Promise.all: validation, the
\* lookups, and the invocation of every target's analysis.
ValidateMulti ==
  /\ pc = "received"
  /\ IsMulti
  /\ LET invalidTarget == findInvalidTarget(Targets)
     IN IF invalidTarget # << >> /\ ~invalidTarget[1].falsy
        THEN /\ Respond(InvalidRequest("Each analysis target must include code and fileName"))
             /\ UNCHANGED <<started, analyses, codeLookup, routeLookup>>
        ELSE IF \E i \in 1..Len(Targets) : Targets[i].falsy
        THEN \* target.fileKey of null: a TypeError, caught by POST
             /\ Respond(InternalError("TypeError"))
             /\ UNCHANGED <<started, analyses, codeLookup, routeLookup>>
        ELSE /\ codeLookup' = buildCodeLookup(Targets)
             /\ routeLookup' = buildRouteLookup(Targets)
             /\ started' = 1..Len(Targets)
             /\ analyses' = [i \in 1..Len(Targets) |-> Pending]
             /\ pc' = "analyzing"
             /\ UNCHANGED response
  /\ UNCHANGED <<ruleVars, body, aggVars>>

\* The single-target branch up to its await.
ValidateSingle ==
  /\ pc = "received"
  /\ ~IsMulti
  /\ IF ~TruthyCode(body.code) \/ ~Truthy(body.fileName)
     THEN /\ Respond(InvalidRequest("Missing required fields: code, fileName"))
          /\ UNCHANGED <<started, analyses>>
     ELSE /\ started' = {1}
          /\ analyses' = <<Pending>>
          /\ pc' = "analyzing"
          /\ UNCHANGED response
  /\ UNCHANGED <<ruleVars, body, codeLookup, routeLookup, aggVars>>

DiagnosticsReturned ==
  SeqSum([i \in 1..Len(analyses) |->
            IF analyses[i] = Pending THEN 0 ELSE Len(analyses[i].diagnostics)])

\* Promise.all keeps the value a promise resolves with at the index of the
\* promise, whatever the order in which the promises resolve.
MutSettleInCompletionOrder(results, i, value) ==
  LET pending == {j \in 1..Len(results) : results[j] = Pending}
  IN [results EXCEPT ![CHOOSE j \in pending : \A k \in pending : j <= k] = value]

settle(results, i, value) == [results EXCEPT ![i] = value]

\* analyzeTargetPayload(target) resolves: the analyzer's result for the
\* target's request, under the target's key.
AnalysisCompletes(i) ==
  /\ pc = "analyzing"
  /\ i \in started
  /\ analyses[i] = Pending
  /\ LET req == createAnalysisRequest(TargetAt(i), scenarioId, SharedContext)
     IN \E ds \in SeqsUpTo(AnalyzerDiagnostics(req)
                              \cup ScenarioAnalyzerDiagnostics(scenarioId),
                            IF MaxDiags > DiagnosticsReturned
                            THEN MaxDiags - DiagnosticsReturned ELSE 0),
           d \in Durations :
          IF scenarioDiagnosticsThrows(ds, scenarioId)
          THEN \* a scenario step throws: the promise rejects
               /\ Respond(InternalError("TypeError"))
               /\ UNCHANGED analyses
          ELSE /\ analyses' = settle(analyses, i,
                                [key |-> KeyOf(TargetAt(i)),
                                 diagnostics |-> scenarioDiagnostics(ds, scenarioId),
                                 duration |-> d,
                                 rulesExecuted |-> AnalyzerRules(req),
                                 version |-> DEFAULT_VERSION])
               /\ pc' = IF \A j \in started \ {i} : analyses[j] # Pending
                        THEN (IF IsMulti THEN "aggregating" ELSE "responding")
                        ELSE pc
               /\ UNCHANGED response
  /\ UNCHANGED <<ruleVars, body, started, codeLookup, routeLookup, aggVars>>

\* analyzeTargetPayload(target) rejects: the await throws into the catch block.
AnalysisThrows(i) ==
  /\ pc = "analyzing"
  /\ i \in started
  /\ analyses[i] = Pending
  /\ Respond(InternalError("analysis failed"))
  /\ UNCHANGED <<ruleVars, body, started, analyses, codeLookup, routeLookup, aggVars>>

AggState ==
  [dbf |-> diagnosticsByFile, durs |-> durationsByFile, keys |-> diagnosticKeysByFile,
   contribs |-> durationContributorsByFile]

SetAggState(a) ==
  /\ diagnosticsByFile' = a.dbf
  /\ durationsByFile' = a.durs
  /\ diagnosticKeysByFile' = a.keys
  /\ durationContributorsByFile' = a.contribs

\* The same loop run from the last entry to the first.
RECURSIVE MutAggregateLastFirst(_, _, _)
MutAggregateLastFirst(a, entries, i) ==
  IF i > Len(entries) THEN a
  ELSE aggregateEntry(MutAggregateLastFirst(a, entries, i + 1), entries[i])

\* analyses.forEach over the entries from index i on, on the bucket state.
RECURSIVE aggregateEntries(_, _, _)
aggregateEntries(a, entries, i) ==
  IF i > Len(entries) THEN a
  ELSE aggregateEntries(aggregateEntry(a, entries[i]), entries, i + 1)

\* rulesExecutedSet after analyses.forEach over the entries from index i on.
RECURSIVE collectRules(_, _, _)
collectRules(rules, entries, i) ==
  IF i > Len(entries) THEN rules
  ELSE collectRules(AddAllUnique(rules, entries[i].rulesExecuted), entries, i + 1)

\* version after analyses.forEach over the entries from index i on: each
\* entry's version replaces the previous one unless it is the empty string.
RECURSIVE versionAfter(_, _, _)
versionAfter(v, entries, i) ==
  IF i > Len(entries) THEN v
  ELSE versionAfter(IF entries[i].version # "" THEN entries[i].version ELSE v,
                    entries, i + 1)

\* analyses.forEach: a synchronous loop, run once every analysis has resolved.
AggregateEntries ==
  /\ pc = "aggregating"
  /\ totalDuration' = totalDuration + SeqSum([i \in 1..Len(analyses) |-> analyses[i].duration])
  /\ version' = versionAfter(IF Len(analyses) = 0 THEN DEFAULT_VERSION
                              ELSE analyses[1].version, analyses, 1)
  /\ rulesExecutedSet' = collectRules(rulesExecutedSet, analyses, 1)
  /\ SetAggState(aggregateEntries(AggState, analyses, 1))
  /\ pc' = "detecting"
  /\ UNCHANGED <<ruleVars, body, started, analyses, codeLookup, routeLookup, response>>

\* The response of the multi-target branch for the final bucket state a.
MultiResponse(a) ==
  [status |-> 200,
   body |-> [diagnostics |-> FlattenBuckets(a.dbf),
             diagnosticsByFile |-> a.dbf,
             durationsByFile |-> a.durs,
             duration |-> totalDuration,
             rulesExecuted |-> rulesExecutedSet,
             version |-> version]]

\* The rest of the multi-target branch: collectBundles,
\* generateDuplicateDiagnostics, duplicateDiagnostics.forEach, and the
\* response with the flattened diagnostics.
DetectDuplicates ==
  /\ pc = "detecting"
  /\ LET bundles == bundleEntries(SharedContext, Targets)
         a == assignDuplicates(
                AggState,
                generateDuplicateDiagnostics(bundles, codeLookup, routeLookup),
                {})
     IN IF generateDuplicateDiagnosticsThrows(bundles)
        THEN /\ Respond(InternalError("TypeError"))
             /\ UNCHANGED <<diagnosticsByFile, durationsByFile, diagnosticKeysByFile,
                            durationContributorsByFile>>
        ELSE /\ SetAggState(a)
             /\ Respond(MultiResponse(a))
  /\ UNCHANGED <<ruleVars, body, started, analyses, codeLookup, routeLookup,
                 rulesExecutedSet, totalDuration, version>>

SingleResponse ==
  LET t == analyses[1]
  IN [status |-> 200,
      body |-> [diagnostics |-> t.diagnostics,
                diagnosticsByFile |-> <<[key |-> t.key, diags |-> t.diagnostics]>>,
                duration |-> t.duration,
                durationsByFile |-> [k \in {t.key} |-> t.duration],
                rulesExecuted |-> t.rulesExecuted,
                version |-> t.version]]

RespondSingle ==
  /\ pc = "responding"
  /\ ~IsMulti
  /\ Respond(SingleResponse)
  /\ UNCHANGED <<ruleVars, body, started, analyses, codeLookup, routeLookup, aggVars>>

Next ==
  \/ ValidateMulti
  \/ ValidateSingle
  \/ \E i \in 1..MaxTargets : AnalysisCompletes(i)
  \/ \E i \in 1..MaxTargets : AnalysisThrows(i)
  \/ AggregateEntries
  \/ DetectDuplicates
  \/ RespondSingle

Spec == Init /\ [][Next]_vars

(***************************************************************************)
(* Vocabulary of the properties.                                           *)
(***************************************************************************)
Done == pc = "done"
MultiSuccess == Done /\ IsMulti /\ response.status = 200
AllAnalysed ==
  /\ Len(analyses) > 0
  /\ \A i \in 1..Len(analyses) : analyses[i] # Pending

NoDuplicateKeys(diags) ==
  \A i, j \in 1..Len(diags) :
    i # j => getDiagnosticKey(diags[i]) # getDiagnosticKey(diags[j])

BucketsHaveUniqueKeys(dbf) == \A b \in 1..Len(dbf) : NoDuplicateKeys(dbf[b].diags)

HasRule(diags, rule) == \E i \in 1..Len(diags) : diags[i].rule = rule

\* The sum of f[x] over the x in S.
RECURSIVE SetSum(_, _)
SetSum(S, f) ==
  IF S = {} THEN 0
  ELSE LET x == CHOOSE y \in S : TRUE IN f[x] + SetSum(S \ {x}, f)

\* The analysed targets that contributed to bucket b: they routed a
\* diagnostic to b, or produced none and b is their own key.
RoutesTo(i, b) ==
  \E j \in 1..Len(analyses[i].diagnostics) :
    bucketFor(analyses[i].key, analyses[i].diagnostics[j]) = b
ContributesTo(i, b) ==
  \/ RoutesTo(i, b)
  \/ Len(analyses[i].diagnostics) = 0 /\ analyses[i].key = b
Contributors(b) == {i \in 1..Len(analyses) : ContributesTo(i, b)}
DurationOf == [i \in 1..Len(analyses) |-> analyses[i].duration]

(***************************************************************************)
(* C1.  No bucket of diagnosticsByFile ever holds two diagnostics with the *)
(* same key (rule or 'suggestion', message, loc.file, range), during the   *)
(* aggregation and in the response: a diagnostic whose key its destination *)
(* bucket already holds is discarded.                                      *)
(***************************************************************************)
C1_BucketKeysUnique ==
  /\ BucketsHaveUniqueKeys(diagnosticsByFile)
  /\ MultiSuccess => BucketsHaveUniqueKeys(response.body.diagnosticsByFile)

\* Two different targets returned diagnostics with one key for one bucket,
\* and the response holds it there once.
C1_Witness ==
  /\ MultiSuccess
  /\ \E i, j \in 1..Len(analyses) :
       /\ i # j
       /\ \E x \in 1..Len(analyses[i].diagnostics), y \in 1..Len(analyses[j].diagnostics) :
            LET dx == analyses[i].diagnostics[x]
                dy == analyses[j].diagnostics[y]
                b == bucketFor(analyses[i].key, dx)
            IN /\ getDiagnosticKey(dx) = getDiagnosticKey(dy)
               /\ bucketFor(analyses[j].key, dy) = b
               /\ Len(Bucket(response.body.diagnosticsByFile, b)) = 1

(***************************************************************************)
(* C2.  A multi-target response has a diagnosticsByFile entry for the key  *)
(* of every input target.                                                  *)
(***************************************************************************)
C2_EveryTargetHasEntry ==
  MultiSuccess =>
    \A i \in 1..Len(Targets) :
      HasBucket(response.body.diagnosticsByFile, KeyOf(Targets[i]))

(***************************************************************************)
(* C3.  The flattened diagnostics list of a multi-target response holds no *)
(* two diagnostics with the same key.                                      *)
(***************************************************************************)
C3_FlattenedKeysUnique ==
  MultiSuccess => NoDuplicateKeys(response.body.diagnostics)

(***************************************************************************)
(* C4.  A non-empty analysisTargets list with a target lacking a string    *)
(* code or a string fileName is answered INVALID_REQUEST, and no analysis  *)
(* is ever started for it.                                                 *)
(***************************************************************************)
HasInvalidTarget ==
  IsMulti /\ \E i \in 1..Len(Targets) : IsInvalidTarget(Targets[i])

IsFailure(code) ==
  /\ "error" \in DOMAIN response.body
  /\ response.body.error.code = code

C4_InvalidTargetRejectsBatch ==
  HasInvalidTarget =>
    /\ started = {}
    /\ Done => response.status = 400 /\ IsFailure("INVALID_REQUEST")

(***************************************************************************)
(* C5.  Every failure response carries diagnostics: [].                    *)
(***************************************************************************)
C5_FailureCarriesEmptyDiagnostics ==
  (Done /\ "error" \in DOMAIN response.body) =>
    /\ "diagnostics" \in DOMAIN response.body
    /\ response.body.diagnostics = << >>

(***************************************************************************)
(* C6.  An INTERNAL_ERROR response carries every field of a success        *)
(* response, with empty diagnostics.                                       *)
(***************************************************************************)
SuccessFields ==
  {"diagnostics", "diagnosticsByFile", "durationsByFile", "duration",
   "rulesExecuted", "version"}

C6_InternalErrorHasSuccessShape ==
  (Done /\ response.status = 500) =>
    /\ SuccessFields \subseteq DOMAIN response.body
    /\ response.body.diagnostics = << >>

(***************************************************************************)
(* C7.  When the duplicate-dependency detector throws in a multi-target    *)
(* run whose analyses all completed, the response is still a success that  *)
(* carries the per-target diagnostics.                                     *)
(***************************************************************************)
DetectorThrows ==
  /\ IsMulti
  /\ AllAnalysed
  /\ generateDuplicateDiagnosticsThrows(bundleEntries(SharedContext, Targets))

C7_DetectorThrowIsNotFatal ==
  (Done /\ DetectorThrows) =>
    /\ response.status = 200
    /\ response.body.diagnosticsByFile = diagnosticsByFile

(***************************************************************************)
(* C8.  As claimed: when the analyzer returns diagnostics of the           *)
(* route-segment-config rule only for requests whose context carries       *)
(* routeConfig, no such diagnostic is in the bucket of a target whose file *)
(* name is no route-segment file name, whatever fileKey the caller chose.  *)
(***************************************************************************)
RouteRuleNeedsRouteConfig ==
  \A i \in 1..Len(analyses) :
    (analyses[i] # Pending /\ HasRule(analyses[i].diagnostics, ROUTE_RULE))
      => CarriesRouteConfig(createAnalysisRequest(TargetAt(i), scenarioId, SharedContext).context)

NoRouteRuleInBucketsOfOtherFiles(dbf) ==
  \A i \in 1..Len(Targets) :
    ~isRouteSegmentFile(Targets[i].fileName)
      => ~HasRule(Bucket(dbf, KeyOf(Targets[i])), ROUTE_RULE)

C8_Original ==
  (IsMulti /\ ~HasInvalidTarget /\ RouteRuleNeedsRouteConfig)
    => NoRouteRuleInBucketsOfOtherFiles(diagnosticsByFile)

(***************************************************************************)
(* C8, amended.  Under the same assumption on the analyzer, when every     *)
(* target's key is its file name (no fileKey, or a fileKey equal to        *)
(* fileName) and the rule locates its diagnostics in the analysed file, no *)
(* diagnostic of the route-segment-config rule is ever in the bucket of a  *)
(* target whose file name is no route-segment file name, also when that    *)
(* target's own context or the shared context carries routeConfig.         *)
(***************************************************************************)
KeysAreFileNames ==
  \A i \in 1..Len(Targets) : KeyOf(Targets[i]) = Targets[i].fileName

C8_RouteConfigScoped ==
  (IsMulti /\ ~HasInvalidTarget /\ RouteRuleNeedsRouteConfig /\ KeysAreFileNames) =>
    /\ NoRouteRuleInBucketsOfOtherFiles(diagnosticsByFile)
    /\ MultiSuccess => NoRouteRuleInBucketsOfOtherFiles(response.body.diagnosticsByFile)

\* A response with a route-config diagnostic, for a request in which a file
\* that is no route segment had routeConfig in its merged context.
C8_Witness ==
  /\ MultiSuccess
  /\ RouteRuleNeedsRouteConfig
  /\ KeysAreFileNames
  /\ HasRule(response.body.diagnostics, ROUTE_RULE)
  /\ \E i \in 1..Len(Targets) :
       /\ ~isRouteSegmentFile(Targets[i].fileName)
       /\ CarriesRouteConfig(buildTargetContext(Targets[i], SharedContext))
       /\ HasBucket(response.body.diagnosticsByFile, KeyOf(Targets[i]))

(***************************************************************************)
(* C9.  For every bucket b of a multi-target response, durationsByFile[b]  *)
(* is the sum of the durations of the targets that contributed to b, each  *)
(* counted once.                                                           *)
(***************************************************************************)
C9_DurationPerContributor ==
  MultiSuccess =>
    \A b \in DOMAIN response.body.durationsByFile :
      response.body.durationsByFile[b] = SetSum(Contributors(b), DurationOf)

(***************************************************************************)
(* C10.  As claimed: every target's duration is counted once in total, so  *)
(* the durationsByFile values add up to the top-level duration.            *)
(***************************************************************************)
DurationsTotal(durs) == SetSum(DOMAIN durs, durs)

C10_Original ==
  MultiSuccess => DurationsTotal(response.body.durationsByFile) = response.body.duration

(***************************************************************************)
(* C10, amended.  A target's duration is counted once in every bucket it   *)
(* contributed to, not once in total: durationsByFile[b] is the sum, over  *)
(* the distinct target keys that contributed to b, of the duration of the  *)
(* first target with that key that contributed to b.  So no durationsByFile*)
(* value exceeds the top-level duration, while their sum can.              *)
(***************************************************************************)
ContributorKeys(b) == {analyses[i].key : i \in Contributors(b)}
FirstContributor(b, k) ==
  CHOOSE i \in Contributors(b) :
    /\ analyses[i].key = k
    /\ \A j \in Contributors(b) : analyses[j].key = k => i <= j

C10_DurationOncePerBucket ==
  MultiSuccess =>
    \A b \in DOMAIN response.body.durationsByFile :
      /\ response.body.durationsByFile[b] =
           SetSum(ContributorKeys(b),
                  [k \in ContributorKeys(b) |-> DurationOf[FirstContributor(b, k)]])
      /\ response.body.durationsByFile[b] <= response.body.duration

\* A response in which one target's duration is counted in two buckets.
C10_Witness ==
  /\ MultiSuccess
  /\ \E i \in 1..Len(analyses) :
       \E b1, b2 \in DOMAIN response.body.durationsByFile :
         /\ b1 # b2
         /\ RoutesTo(i, b1)
         /\ RoutesTo(i, b2)
  /\ DurationsTotal(response.body.durationsByFile) > response.body.duration

(***************************************************************************)
(* The duplicate-dependency detector, reached through the multi-target     *)
(* branch with requests that differ in their bundle records and routes,    *)
(* and with analyses that return no diagnostics.                           *)
(***************************************************************************)
\* longest analysisTargets list of a detector request
MaxDetectorTargets == 2

Bundles(records) == [clientBundles |-> records]
\* A.tsx, pulling in util.js and lib.js
DetA ==
  [falsy |-> FALSE, fileKey |-> Absent, fileName |-> <<"A.tsx">>, code |-> CodeA,
   context |-> Bundles(<<[filePath |-> <<"A.tsx">>,
                          chunks |-> << <<"util.js">>, <<"lib.js">> >>]>>)]
\* B.tsx of route '/shop', pulling in lib.js and util.js
DetB ==
  [falsy |-> FALSE, fileKey |-> Absent, fileName |-> <<"B.tsx">>, code |-> CodeB,
   context |-> [route |-> <<"", "shop">>,
                clientBundles |-> <<[filePath |-> <<".", "B.tsx">>,
                                     chunks |-> << <<"lib.js">>, <<"util.js">> >>]>>]]
\* B.tsx of route '/cart', pulling in lib.js
DetBCart ==
  [falsy |-> FALSE, fileKey |-> Absent, fileName |-> <<"B.tsx">>, code |-> CodeB,
   context |-> [route |-> <<"", "cart">>,
                clientBundles |-> <<[filePath |-> <<"B.tsx">>,
                                     chunks |-> << <<"lib.js">> >>]>>]]
\* app/products/C.tsx, pulling in lib.js
DetProducts ==
  [falsy |-> FALSE, fileKey |-> Absent, fileName |-> <<"app", "products", "C.tsx">>,
   code |-> CodePlain,
   context |-> Bundles(<<[filePath |-> <<"app", "products", "C.tsx">>,
                          chunks |-> << <<"lib.js">> >>]>>)]
\* A.tsx again, with a record that lists util.js only
DetAUtil ==
  [falsy |-> FALSE, fileKey |-> Absent, fileName |-> <<"A.tsx">>, code |-> CodeA,
   context |-> Bundles(<<[filePath |-> <<"A.tsx">>, chunks |-> << <<"util.js">> >>]>>)]

\* E.tsx, pulling in lib.js, which it imports as 'lib' and then as 'lib.js'
CodeLibTwice ==
  [defined |-> TRUE, blank |-> FALSE,
   imports |-> <<[spec |-> <<"lib">>, from |-> 7, to |-> 12],
                 [spec |-> <<"lib.js">>, from |-> 30, to |-> 38]>>]
DetLibTwice ==
  [falsy |-> FALSE, fileKey |-> Absent, fileName |-> <<"E.tsx">>, code |-> CodeLibTwice,
   context |-> Bundles(<<[filePath |-> <<"E.tsx">>, chunks |-> << <<"lib.js">> >>]>>)]

DetectorTargets ==
  {TargetA, TargetB, DetA, DetB, DetBCart, DetProducts, DetAUtil, DetLibTwice}

DetectorSharedContexts ==
  {NoContext,
   Bundles(<<[filePath |-> <<"A.tsx">>, chunks |-> << <<"lib.js">> >>],
             [filePath |-> <<"Widget.tsx">>, chunks |-> << <<"lib.js">> >>]>>)}

DetectorRequests ==
  {[analysisTargets |-> ts, context |-> sc, code |-> NoCode, fileName |-> Absent,
    fileKey |-> Absent] :
     ts \in SeqsUpTo(DetectorTargets, MaxDetectorTargets) \ {<< >>},
     sc \in DetectorSharedContexts}

DetectorInit ==
  /\ body \in DetectorRequests
  /\ ruleCall = NoCall
  /\ call = NoCall
  /\ HandlerStart

\* analyzeTargetPayload(target) resolves with no diagnostics.
AnalysisResolvesQuiet(i) ==
  /\ pc = "analyzing"
  /\ i \in started
  /\ analyses[i] = Pending
  /\ analyses' = settle(analyses, i,
                    [key |-> KeyOf(TargetAt(i)),
                     diagnostics |-> scenarioDiagnostics(<< >>, scenarioId),
                     duration |-> 1,
                     rulesExecuted |-> << >>,
                     version |-> DEFAULT_VERSION])
  /\ pc' = IF \A j \in started \ {i} : analyses[j] # Pending
           THEN (IF IsMulti THEN "aggregating" ELSE "responding")
           ELSE pc
  /\ UNCHANGED <<ruleVars, body, started, codeLookup, routeLookup, aggVars, response>>

DetectorNext ==
  \/ ValidateMulti
  \/ \E i \in 1..MaxDetectorTargets : AnalysisResolvesQuiet(i)
  \/ AggregateEntries
  \/ DetectDuplicates

DetectorSpec == DetectorInit /\ [][DetectorNext]_vars

\* The detector's input and output for the request at hand.
bundleMap == bundleEntries(SharedContext, Targets)
duplicateDiagnostics == generateDuplicateDiagnostics(bundleMap, codeLookup, routeLookup)

DUPLICATE_RULE == "duplicate-dependencies"

\* The chunks the records list, and the components (file paths without a
\* leading './') whose records list a chunk.
ChunksOf(records) == UNION {SeqToSet(records[i].chunks) : i \in 1..Len(records)}
ComponentsSharing(records, chunk) ==
  {StripDotSlash(records[i].filePath) :
     i \in {j \in 1..Len(records) : chunk \in SeqToSet(records[j].chunks)}}

\* The message names the chunk and the basename of every one of the paths.
MessageNames(message, chunk, paths) ==
  /\ SeqToSet(chunk) \subseteq SeqToSet(message)
  /\ \A p \in paths : SeqToSet(BaseName(p)) \subseteq SeqToSet(message)

DuplicatesOf(diags) == SelectSeq(diags, LAMBDA d : d.rule = DUPLICATE_RULE)

\* Two targets A.tsx and B.tsx, each with one record of its own that lists
\* lib.js, and no shared records.
IsPairSharingLib ==
  /\ Len(Targets) = 2
  /\ Targets[1].fileName = <<"A.tsx">>
  /\ Targets[2].fileName = <<"B.tsx">>
  /\ ~hasClientBundles(SharedContext)
  /\ \A i \in 1..2 :
       /\ hasClientBundles(Targets[i].context)
       /\ Len(Targets[i].context.clientBundles) = 1
       /\ StripDotSlash(Targets[i].context.clientBundles[1].filePath) = Targets[i].fileName
       /\ Targets[i].context.clientBundles[1].chunks = << <<"lib.js">> >>

(***************************************************************************)
(* C11.  For every chunk that the detector's bundle records associate with *)
(* two or more components, and every such component, the detector emits a  *)
(* duplicate-dependencies diagnostic keyed by the component's basename     *)
(* whose message names the chunk and the basenames of all the other        *)
(* components; for a chunk of one component it emits nothing.  For two     *)
(* targets A.tsx and B.tsx that each list lib.js, the response holds       *)
(* exactly one such diagnostic in bucket A.tsx, naming B.tsx, and exactly  *)
(* one in bucket B.tsx, naming A.tsx.                                      *)
(***************************************************************************)
C11_DuplicatePerSharingComponent ==
  MultiSuccess =>
    /\ \A chunk \in ChunksOf(bundleMap) :
         LET sharing == ComponentsSharing(bundleMap, chunk)
         IN IF Cardinality(sharing) >= 2
            THEN \A c \in sharing :
                   \E i \in 1..Len(duplicateDiagnostics) :
                     LET d == duplicateDiagnostics[i]
                     IN /\ d.identity[1] = c
                        /\ d.identity[2] = chunk
                        /\ d.key = BaseName(c)
                        /\ d.diag.rule = DUPLICATE_RULE
                        /\ MessageNames(d.diag.message, chunk, sharing \ {c})
                        /\ \E j \in 1..Len(Bucket(response.body.diagnosticsByFile, d.key)) :
                             Bucket(response.body.diagnosticsByFile, d.key)[j].message
                               = d.diag.message
            ELSE \A i \in 1..Len(duplicateDiagnostics) :
                   duplicateDiagnostics[i].identity[2] # chunk
    /\ IsPairSharingLib =>
         LET inA == DuplicatesOf(Bucket(response.body.diagnosticsByFile, <<"A.tsx">>))
             inB == DuplicatesOf(Bucket(response.body.diagnosticsByFile, <<"B.tsx">>))
         IN /\ Len(inA) = 1
            /\ MessageNames(inA[1].message, <<"lib.js">>, {<<"B.tsx">>})
            /\ Len(inB) = 1
            /\ MessageNames(inB[1].message, <<"lib.js">>, {<<"A.tsx">>})

\* A response for three components sharing one chunk.
C11_Witness ==
  /\ MultiSuccess
  /\ \E chunk \in ChunksOf(bundleMap) : Cardinality(ComponentsSharing(bundleMap, chunk)) >= 3
  /\ Len(DuplicatesOf(response.body.diagnostics)) >= 3

\* The orders a list of bundle records can be given in: every permutation
\* of the records, with the chunks of any of them reversed (a record of the
\* model lists at most two chunks).
Reverse(s) == [i \in 1..Len(s) |-> s[Len(s) + 1 - i]]
PermutationsOf(s) == {[i \in 1..Len(s) |-> s[p[i]]] : p \in Permutations(1..Len(s))}
WithChunksReversed(records, R) ==
  [i \in 1..Len(records) |->
     IF i \in R THEN [records[i] EXCEPT !.chunks = Reverse(@)] ELSE records[i]]
Reorderings(records) ==
  UNION {PermutationsOf(WithChunksReversed(records, R)) : R \in SUBSET (1..Len(records))}

(***************************************************************************)
(* C12.  The sequence of diagnostics the detector emits is the same for    *)
(* every permutation of the bundle records it is given and of the chunks   *)
(* inside each record.                                                     *)
(***************************************************************************)
C12_EmissionOrderIgnoresInputOrder ==
  MultiSuccess =>
    \A records \in Reorderings(bundleMap) :
      generateDuplicateDiagnostics(records, codeLookup, routeLookup) = duplicateDiagnostics

\* The route labels resolved for a component: the truthy routes the route
\* lookup holds for its path or its basename, and the route its path shape
\* gives.
ResolvedLabels(c) ==
  LET extracted == extractRouteFromComponentPath(c)
  IN {l \in SeqToSet(MapGet(routeLookup, c, << >>))
            \cup SeqToSet(MapGet(routeLookup, BaseName(c), << >>)) : Truthy(l)}
     \cup (IF Truthy(extracted) /\ extracted # <<"", "components">>
           THEN {extracted} ELSE {})

\* The indices of the diagnostics emitted for a (chunk, component) pair with
\* route label l (Absent: without a label).
EmittedFor(chunk, c, l) ==
  {i \in 1..Len(duplicateDiagnostics) :
     /\ duplicateDiagnostics[i].identity[1] = c
     /\ duplicateDiagnostics[i].identity[2] = chunk
     /\ duplicateDiagnostics[i].identity[4] = l
     /\ (" in route '" \in SeqToSet(duplicateDiagnostics[i].diag.message)) = Truthy(l)}
EmittedForPair(chunk, c) ==
  {i \in 1..Len(duplicateDiagnostics) :
     /\ duplicateDiagnostics[i].identity[1] = c
     /\ duplicateDiagnostics[i].identity[2] = chunk}

(***************************************************************************)
(* C13.  For every shared chunk and every component sharing it, the        *)
(* detector emits exactly one diagnostic for each distinct route label     *)
(* resolved for the component and nothing else, or exactly one diagnostic  *)
(* without a label when no label resolves.                                 *)
(***************************************************************************)
C13_OneDiagnosticPerRouteLabel ==
  MultiSuccess =>
    \A chunk \in ChunksOf(bundleMap) :
      LET sharing == ComponentsSharing(bundleMap, chunk)
      IN Cardinality(sharing) >= 2 =>
           \A c \in sharing :
             LET labels == ResolvedLabels(c)
             IN IF labels = {}
                THEN /\ Cardinality(EmittedFor(chunk, c, Absent)) = 1
                     /\ Cardinality(EmittedForPair(chunk, c)) = 1
                ELSE /\ \A l \in labels : Cardinality(EmittedFor(chunk, c, l)) = 1
                     /\ Cardinality(EmittedForPair(chunk, c)) = Cardinality(labels)

\* A response for a chunk shared by a component with two route labels and a
\* component without any.
C13_Witness ==
  /\ MultiSuccess
  /\ \E chunk \in ChunksOf(bundleMap) :
       \E c1, c2 \in ComponentsSharing(bundleMap, chunk) :
         /\ Cardinality(ResolvedLabels(c1)) = 2
         /\ ResolvedLabels(c2) = {}
         /\ Cardinality(EmittedForPair(chunk, c1)) = 2
  /\ Len(DuplicatesOf(response.body.diagnostics)) >= 3

\* A message contains a text when one of its pieces does.  The literal
\* pieces of the detector's message template contain neither 'this file' nor
\* 'all import this dependency', and no chunk, file or route name of the
\* model does, so for these two texts a piece contains the text only when
\* it is the text.
MessageContains(message, text) == \E i \in 1..Len(message) : message[i] = text

(***************************************************************************)
(* C14.  Every duplicate-dependencies diagnostic in a bucket of a          *)
(* multi-target response has a message that contains 'this file' and      *)
(* 'all import this dependency'.                                           *)
(***************************************************************************)
C14_DuplicateMessagesMentionThisFile ==
  MultiSuccess =>
    \A b \in 1..Len(response.body.diagnosticsByFile) :
      \A i \in 1..Len(response.body.diagnosticsByFile[b].diags) :
        LET diag == response.body.diagnosticsByFile[b].diags[i]
        IN diag.rule = DUPLICATE_RULE =>
             /\ MessageContains(diag.message, "this file")
             /\ MessageContains(diag.message, "all import this dependency")

\* The response the multi-target branch computes from the request and the
\* per-target outputs alone, with the lookups and buckets built anew.
RerunResponse(request, outputs) ==
  LET targets == request.analysisTargets
      records == bundleEntries(request.context, targets)
      perTarget == aggregateEntries(
                     [dbf |-> << >>, durs |-> EmptyMap, keys |-> EmptyMap,
                      contribs |-> EmptyMap],
                     outputs, 1)
      final == assignDuplicates(
                 perTarget,
                 generateDuplicateDiagnostics(records, buildCodeLookup(targets),
                                              buildRouteLookup(targets)),
                 {})
  IN IF generateDuplicateDiagnosticsThrows(records)
     THEN InternalError("TypeError")
     ELSE [status |-> 200,
           body |-> [diagnostics |-> FlattenBuckets(final.dbf),
                     diagnosticsByFile |-> final.dbf,
                     durationsByFile |-> final.durs,
                     duration |-> SeqSum([i \in 1..Len(outputs) |-> outputs[i].duration]),
                     rulesExecuted |-> collectRules(<< >>, outputs, 1),
                     version |-> outputs[Len(outputs)].version]]

(***************************************************************************)
(* C15.  The response of a multi-target run is determined by the request   *)
(* and the outputs of the per-target analyses: in whatever order the       *)
(* analyses resolved, output i is the output for target i, and the         *)
(* response is the one a second run on the same request with the same      *)
(* outputs computes.                                                       *)
(***************************************************************************)
C15_ResponseDeterminedByInputs ==
  (Done /\ IsMulti /\ AllAnalysed) =>
    /\ \A i \in 1..Len(Targets) : analyses[i].key = KeyOf(Targets[i])
    /\ response = RerunResponse(body, analyses)

\* A response for two targets with different keys that both returned
\* diagnostics.
C15_Witness ==
  /\ MultiSuccess
  /\ Len(Targets) = 2
  /\ KeyOf(Targets[1]) # KeyOf(Targets[2])
  /\ \A i \in 1..2 : Len(analyses[i].diagnostics) > 0
  /\ response = RerunResponse(body, analyses)

(***************************************************************************)
(* The forbidden-import rule (clientForbiddenImports.ts).                  *)
(*                                                                         *)
(* A source text is modelled by what the TypeScript parser makes of it:    *)
(* the sequence of its import declarations and call expressions in the     *)
(* order the rule's depth-first visit meets them, each with the offsets    *)
(* the parser reports.  Statement k of a text occupies the offsets from    *)
(* StatementWidth * (k - 1).                                               *)
(***************************************************************************)
MaxStatements == 2
MaxFiles == 2

StatementWidth == 40

\* A string literal node: its text, its offsets, and the start of its parent.
\* The number of characters of a module name of the model's source texts.
TextLength(text) ==
  CASE text = "fs" -> 2
    [] text = "path" -> 4
    [] text = "react" -> 5
    [] text = "node:fs" -> 7
    [] text = "child_process" -> 13

\* A string literal '<text>': it ends after its closing quote.
StringLiteral(text, start, parentStart) ==
  [kind |-> "StringLiteral", text |-> text, start |-> start,
   end |-> start + TextLength(text) + 2, parentStart |-> parentStart]

\* import x from '<text>';
ImportDeclaration(text, k) ==
  [kind |-> "ImportDeclaration", start |-> StatementWidth * (k - 1),
   moduleSpecifier |->
     StringLiteral(text, StatementWidth * (k - 1) + 14, StatementWidth * (k - 1))]

\* A call expression `<callee>(<arguments>)` after `const x = `.
CallExpression(calleeIsIdentifier, callee, arguments, k) ==
  [kind |-> "CallExpression", start |-> StatementWidth * (k - 1) + 10,
   calleeIsIdentifier |-> calleeIsIdentifier, callee |-> callee,
   arguments |-> arguments]

Identifier == [kind |-> "Identifier"]

\* The statement forms of the model's source texts.
StatementForms ==
  { <<"import", "fs">>, <<"import", "node:fs">>, <<"import", "path">>,
    <<"import", "react">>, <<"require", "fs">>, <<"require", "child_process">>,
    <<"require variable", "fs">>, <<"require nothing", "fs">>,
    <<"dynamic import", "fs">>, <<"call", "fs">> }

\* The node the parser makes of the k-th statement, of the given form.
ParseStatement(form, k) ==
  LET text == form[2]
      literal == StringLiteral(text, StatementWidth * (k - 1) + 18,
                               StatementWidth * (k - 1) + 10)
  IN CASE form[1] = "import" -> ImportDeclaration(text, k)
       [] form[1] = "require" -> CallExpression(TRUE, "require", <<literal>>, k)
       [] form[1] = "require variable" ->
            CallExpression(TRUE, "require", <<Identifier>>, k)
       [] form[1] = "require nothing" -> CallExpression(TRUE, "require", << >>, k)
       [] form[1] = "dynamic import" -> CallExpression(FALSE, "import", <<literal>>, k)
       [] OTHER -> CallExpression(TRUE, "load", <<literal>>, k)

\* ts.createSourceFile: the nodes of a text, in visit order.
createSourceFile(fileName, sourceText) ==
  [fileName |-> fileName,
   nodes |-> [k \in 1..Len(sourceText) |-> ParseStatement(sourceText[k], k)]]

DEFAULT_MODULES ==
  {"fs", "path", "child_process", "os", "net", "tls", "http", "https",
   "worker_threads", "perf_hooks"}

\* forbiddenModules is a list, or Absent (the empty list) when the option is
\* not given; an empty list is written EmptyList, since `[]` is truthy.
EmptyList == <<"[]">>
resolveModuleSet(forbiddenModules) ==
  IF forbiddenModules = Absent THEN DEFAULT_MODULES
  ELSE IF forbiddenModules = EmptyList THEN {}
  ELSE {forbiddenModules[i] : i \in 1..Len(forbiddenModules)}

\* moduleName.startsWith('node:') ? moduleName.slice(5) : moduleName, on the
\* module names of StatementForms.
normalizeModule(moduleName) ==
  IF moduleName = "node:fs" THEN "fs" ELSE moduleName

isForbiddenModule(moduleName, modules) ==
  moduleName \in modules \/ normalizeModule(moduleName) \in modules

\* createDiagnosticFromNode of ../lib/diagnosticHelpers.js: a diagnostic
\* located at the node's offsets in the named file.
createDiagnosticFromNode(sourceFile, node, fileName, rule, message, level) ==
  [rule |-> rule, level |-> level, message |-> message,
   loc |-> [file |-> fileName, range |-> [from |-> node.start, to |-> node.end]]]

FORBIDDEN_RULE == "client-forbidden-import"

\* The mutant locates the diagnostic at the start of the enclosing statement.
MutDiagnosticAtStatement(sourceFile, node, moduleName) ==
  [rule |-> FORBIDDEN_RULE, level |-> "error",
   message |-> <<"Client components must not import '", moduleName, "'.">>,
   loc |-> [file |-> sourceFile.fileName,
            range |-> [from |-> node.parentStart, to |-> node.end]]]

createDiagnostic(sourceFile, node, moduleName) ==
  LET targetNode == IF node.kind = "ImportDeclaration"
                    THEN node.moduleSpecifier ELSE node
  IN createDiagnosticFromNode(sourceFile, targetNode, sourceFile.fileName,
       FORBIDDEN_RULE,
       <<"Client components must not import '", moduleName, "'.">>, "error")

\* What one step of `visit` pushes for a node.
visit(sourceFile, node, modules) ==
  LET fromImport ==
        IF /\ node.kind = "ImportDeclaration"
           /\ node.moduleSpecifier.kind = "StringLiteral"
           /\ isForbiddenModule(node.moduleSpecifier.text, modules)
        THEN <<createDiagnostic(sourceFile, node.moduleSpecifier,
                                node.moduleSpecifier.text)>>
        ELSE << >>
      fromRequire ==
        IF /\ node.kind = "CallExpression"
           /\ node.calleeIsIdentifier
           /\ node.callee = "require"
           /\ Len(node.arguments) > 0
           /\ node.arguments[1].kind = "StringLiteral"
           /\ isForbiddenModule(node.arguments[1].text, modules)
        THEN <<createDiagnostic(sourceFile, node.arguments[1],
                                node.arguments[1].text)>>
        ELSE << >>
  IN fromImport \o fromRequire

RECURSIVE visitAll(_, _, _, _)
visitAll(sourceFile, modules, k, diagnostics) ==
  IF k > Len(sourceFile.nodes) THEN diagnostics
  ELSE visitAll(sourceFile, modules, k + 1,
                diagnostics \o visit(sourceFile, sourceFile.nodes[k], modules))

analyzeSource(options) ==
  visitAll(createSourceFile(options.fileName, options.sourceText),
           resolveModuleSet(options.forbiddenModules), 1, << >>)

\* classifyComponent of ../lib/classify.js reads the text's directive: the
\* model's texts carry the kind it reports.
classifyComponent(file) == [kind |-> file.classified]

MutAnalyzeAnyFile(options) ==
  analyzeSource([fileName |-> options.fileName,
                 sourceText |-> options.sourceText.statements,
                 forbiddenModules |-> options.forbiddenModules])

analyzeClientFileForForbiddenImports(options) ==
  IF classifyComponent(options.sourceText).kind # "client" THEN << >>
  ELSE analyzeSource([fileName |-> options.fileName,
                      sourceText |-> options.sourceText.statements,
                      forbiddenModules |-> options.forbiddenModules])

RECURSIVE collectFrom(_, _, _, _)
collectFrom(files, forbiddenModules, i, diagnostics) ==
  IF i > Len(files) THEN diagnostics
  ELSE IF files[i].kind # "client"
       THEN collectFrom(files, forbiddenModules, i + 1, diagnostics)
       ELSE collectFrom(files, forbiddenModules, i + 1,
              diagnostics \o
                analyzeSource([fileName |-> files[i].filePath,
                               sourceText |-> files[i].sourceText.statements,
                               forbiddenModules |-> forbiddenModules]))

collectForbiddenImportDiagnostics(options) ==
  collectFrom(options.files, options.forbiddenModules, 1, << >>)

\* The calls of the rule the model makes.
ComponentKinds == {"client", "server"}
SourceTexts ==
  [statements : SeqsUpTo(StatementForms, MaxStatements), classified : ComponentKinds]
ForbiddenModuleOptions == {Absent, EmptyList, <<"react", "fs">>}

ClientSource(forms) == [statements |-> forms, classified |-> "client"]
ServerSource(forms) == [statements |-> forms, classified |-> "server"]

\* The files handed to collectForbiddenImportDiagnostics: the caller gives
\* the kind, which need not be the kind the text's directive would give.
CollectedFiles ==
  { [filePath |-> <<"Client.tsx">>, kind |-> "client",
     sourceText |-> ClientSource(<< <<"import", "fs">>, <<"require", "child_process">> >>)],
    [filePath |-> <<"Server.tsx">>, kind |-> "server",
     sourceText |-> ServerSource(<< <<"import", "fs">> >>)],
    [filePath |-> <<"Shared.tsx">>, kind |-> "server",
     sourceText |-> ClientSource(<< <<"import", "node:fs">> >>)],
    [filePath |-> <<"Form.tsx">>, kind |-> "client",
     sourceText |-> ClientSource(<< <<"import", "react">>, <<"require", "fs">> >>)],
    [filePath |-> <<"Plain.tsx">>, kind |-> "client",
     sourceText |-> ClientSource(<< >>)] }

RuleCalls ==
  [fn : {"analyzeClientFileForForbiddenImports"},
   fileName : {<<"Client.tsx">>},
   sourceText : SourceTexts,
   forbiddenModules : ForbiddenModuleOptions]
  \cup
  [fn : {"collectForbiddenImportDiagnostics"},
   files : SeqsUpTo(CollectedFiles, MaxFiles),
   forbiddenModules : ForbiddenModuleOptions]

\* The rule is called outside the handler: the handler's state stays as it
\* is before a request arrives.
RuleInit ==
  /\ ruleCall \in RuleCalls
  /\ call = NoCall
  /\ body = [analysisTargets |-> << >>, context |-> NoContext, code |-> NoCode,
             fileName |-> Absent, fileKey |-> Absent]
  /\ HandlerStart

AnalyzeClientFile ==
  /\ pc = "received"
  /\ ruleCall.fn = "analyzeClientFileForForbiddenImports"
  /\ ruleDiagnostics' = analyzeClientFileForForbiddenImports(ruleCall)
  /\ pc' = "returned"
  /\ ruleCall' = ruleCall
  /\ UNCHANGED <<call, returned>>
  /\ UNCHANGED handlerVars

CollectForbiddenImports ==
  /\ pc = "received"
  /\ ruleCall.fn = "collectForbiddenImportDiagnostics"
  /\ ruleDiagnostics' = collectForbiddenImportDiagnostics(ruleCall)
  /\ pc' = "returned"
  /\ ruleCall' = ruleCall
  /\ UNCHANGED <<call, returned>>
  /\ UNCHANGED handlerVars

RuleNext == AnalyzeClientFile \/ CollectForbiddenImports

RuleSpec == RuleInit /\ [][RuleNext]_vars

Returned == pc = "returned"
AnalyzedClientFile ==
  /\ Returned
  /\ ruleCall.fn = "analyzeClientFileForForbiddenImports"
  /\ ruleCall.sourceText.classified = "client"

\* The statements of the analysed text that import a denylisted module by a
\* static import or by require() with a string literal, in source order.
Denylist == resolveModuleSet(ruleCall.forbiddenModules)
ImportsDenylisted(form) ==
  /\ form[1] \in {"import", "require"}
  /\ (form[2] \in Denylist \/ normalizeModule(form[2]) \in Denylist)
Offending ==
  SelectSeq([k \in 1..Len(ruleCall.sourceText.statements) |->
               [form |-> ruleCall.sourceText.statements[k], k |-> k]],
            LAMBDA st : ImportsDenylisted(st.form))
DistinctModules ==
  \A i, j \in 1..Len(Offending) :
    i # j => normalizeModule(Offending[i].form[2]) # normalizeModule(Offending[j].form[2])

\* Where statement k starts, and where its string-literal specifier lies.
StatementStart(st) ==
  IF st.form[1] = "import" THEN StatementWidth * (st.k - 1)
  ELSE StatementWidth * (st.k - 1) + 10
SpecifierStart(st) ==
  IF st.form[1] = "import" THEN StatementWidth * (st.k - 1) + 14
  ELSE StatementWidth * (st.k - 1) + 18

\* The specifier ends after its closing quote.
SpecifierEnd(st) == SpecifierStart(st) + TextLength(st.form[2]) + 2

(***************************************************************************)
(* C16.  For a client file that imports N distinct denylisted modules,     *)
(* each by a static import or by require() with a string literal, the rule *)
(* returns exactly N diagnostics: the j-th has rule                        *)
(* 'client-forbidden-import' and level 'error', names the j-th module, and *)
(* is located at the offsets of that module's string-literal specifier,    *)
(* not at the start of the statement.                                      *)
(***************************************************************************)
C16_OneDiagnosticPerSpecifier ==
  (AnalyzedClientFile /\ DistinctModules) =>
    /\ Len(ruleDiagnostics) = Len(Offending)
    /\ \A j \in 1..Len(Offending) :
         /\ j <= Len(ruleDiagnostics)
         /\ ruleDiagnostics[j].rule = FORBIDDEN_RULE
         /\ ruleDiagnostics[j].level = "error"
         /\ ruleDiagnostics[j].message[2] = Offending[j].form[2]
         /\ ruleDiagnostics[j].loc.range.from = SpecifierStart(Offending[j])
         /\ ruleDiagnostics[j].loc.range.to = SpecifierEnd(Offending[j])
         /\ ruleDiagnostics[j].loc.range.from # StatementStart(Offending[j])

\* A client file with a static import of one denylisted module and a
\* require() of another returned two diagnostics.
C16_Witness ==
  /\ AnalyzedClientFile
  /\ DistinctModules
  /\ Len(Offending) = 2
  /\ Offending[1].form[1] = "import"
  /\ Offending[2].form[1] = "require"
  /\ Len(ruleDiagnostics) = 2

(***************************************************************************)
(* C17.  The rule reports on client files only:                            *)
(* analyzeClientFileForForbiddenImports returns the empty list for a file  *)
(* not classified 'client', and no diagnostic returned by                  *)
(* collectForbiddenImportDiagnostics is located in a file whose kind is    *)
(* not 'client'.                                                           *)
(***************************************************************************)
C17_ClientFilesOnly ==
  Returned =>
    /\ (/\ ruleCall.fn = "analyzeClientFileForForbiddenImports"
        /\ ruleCall.sourceText.classified # "client") => ruleDiagnostics = << >>
    /\ ruleCall.fn = "collectForbiddenImportDiagnostics" =>
         \A i \in 1..Len(ruleCall.files) :
           ruleCall.files[i].kind # "client" =>
             \A j \in 1..Len(ruleDiagnostics) :
               ruleDiagnostics[j].loc.file # ruleCall.files[i].filePath

\* A file classified 'server' that imports 'fs' was analysed and the rule
\* returned nothing.
C17_Witness ==
  /\ Returned
  /\ ruleCall.fn = "analyzeClientFileForForbiddenImports"
  /\ ruleCall.sourceText.classified = "server"
  /\ ruleCall.forbiddenModules = Absent
  /\ ruleCall.sourceText.statements = << <<"import", "fs">> >>
  /\ ruleDiagnostics = << >>

SingleSuccess == Done /\ ~IsMulti /\ response.status = 200

(***************************************************************************)
(* C18.  A successful single-target response has exactly one entry in      *)
(* diagnosticsByFile and one in durationsByFile, both under the target's   *)
(* key: body.fileKey when it is given, else body.fileName.  The            *)
(* diagnosticsByFile entry is the whole diagnostics list of the response,  *)
(* and the durationsByFile entry is the duration of the analysis.          *)
(***************************************************************************)
C18_SingleTargetOneEntry ==
  SingleSuccess =>
    LET key == IF body.fileKey # Absent THEN body.fileKey ELSE body.fileName
    IN /\ Len(response.body.diagnosticsByFile) = 1
       /\ response.body.diagnosticsByFile[1].key = key
       /\ response.body.diagnosticsByFile[1].diags = response.body.diagnostics
       /\ response.body.diagnostics = analyses[1].diagnostics
       /\ DOMAIN response.body.durationsByFile = {key}
       /\ response.body.durationsByFile[key] = analyses[1].duration
       /\ response.body.duration = analyses[1].duration

\* A single-target request with a fileKey was answered with two diagnostics.
C18_Witness ==
  /\ SingleSuccess
  /\ body.fileKey = <<"editor-1">>
  /\ body.fileName = <<"A.tsx">>
  /\ Len(response.body.diagnostics) = 2
  /\ response.body.diagnosticsByFile[1].key = <<"editor-1">>
  /\ response.body.durationsByFile[<<"editor-1">>] = MaxDuration

\* Every bundle record of the request: those of the shared context's
\* clientBundles and those of each target's own clientBundles.
RecordsOf(context) ==
  IF hasClientBundles(context) THEN SeqToSet(context.clientBundles) ELSE {}
RequestRecords ==
  RecordsOf(SharedContext) \cup UNION {RecordsOf(Targets[i].context) : i \in 1..Len(Targets)}

\* The reverse index the detector builds from its input.
reverseIndex == chunkToComponents(<< >>, bundleMap)
Associates(index, chunk, component) ==
  \E i \in 1..Len(index) : index[i].chunk = chunk /\ component \in index[i].components

(***************************************************************************)
(* C19.  Every bundle record of the shared context's clientBundles and of  *)
(* every target's clientBundles takes part in the detector's input: when   *)
(* the detector runs, its reverse index associates a chunk with a          *)
(* component whenever some such record for that component lists the chunk. *)
(***************************************************************************)
C19_EveryRecordReachesDetector ==
  (IsMulti /\ pc = "detecting") =>
    \A record \in RequestRecords :
      \A chunk \in SeqToSet(record.chunks) :
        Associates(reverseIndex, chunk, StripDotSlash(record.filePath))

(***************************************************************************)
(* Bucket selection.  One target per request, under keys with and without  *)
(* './', directories and a fileKey; its analysis resolves with one         *)
(* diagnostic whose loc.file is any of LocatedFiles.                       *)
(***************************************************************************)
KeyedTarget(fileKey, fileName) ==
  [falsy |-> FALSE, fileKey |-> fileKey, fileName |-> fileName, code |-> CodeA,
   context |-> NoContext]

BucketTargets ==
  { KeyedTarget(Absent, <<"A.tsx">>),
    KeyedTarget(Absent, <<".", "A.tsx">>),
    KeyedTarget(Absent, <<"src", "A.tsx">>),
    KeyedTarget(Absent, EmptyString),
    KeyedTarget(<<"editor-1">>, <<"A.tsx">>),
    KeyedTarget(<<"app", "page.tsx">>, <<"page.tsx">>) }

BucketRequests ==
  {[analysisTargets |-> <<t>>, context |-> NoContext, code |-> NoCode,
    fileName |-> Absent, fileKey |-> Absent] : t \in BucketTargets}

BucketInit ==
  /\ body \in BucketRequests
  /\ ruleCall = NoCall
  /\ call = NoCall
  /\ HandlerStart

\* diag.loc?.file of a diagnostic: undefined, '', a file, a path, a path
\* with './', and paths that end in '/'.
LocatedFiles ==
  { Absent, EmptyString, <<"A.tsx">>, <<".", "A.tsx">>, <<"src", "A.tsx">>,
    <<"lib", "B.tsx">>, <<"page.tsx">>, <<"src", "">>, <<".", "">>,
    <<".", "lib", "B.tsx">> }

LocatedAt(file) ==
  [rule |-> "r", level |-> "warn", message |-> <<"m">>, loc |-> TRUE,
   file |-> file, range |-> <<0, 1>>]

\* result.version: the analyzer's version, possibly the empty string.
AnalyzerVersions == {DEFAULT_VERSION, "1.0.0", ""}

\* analyzeTargetPayload(target) resolves with one located diagnostic.
AnalysisResolvesLocated(i) ==
  /\ pc = "analyzing"
  /\ i \in started
  /\ analyses[i] = Pending
  /\ \E file \in LocatedFiles, v \in AnalyzerVersions :
       IF scenarioDiagnosticsThrows(<<LocatedAt(file)>>, scenarioId)
       THEN /\ Respond(InternalError("TypeError"))
            /\ UNCHANGED analyses
       ELSE /\ analyses' = settle(analyses, i,
                             [key |-> KeyOf(TargetAt(i)),
                              diagnostics |->
                                scenarioDiagnostics(<<LocatedAt(file)>>, scenarioId),
                              duration |-> 1,
                              rulesExecuted |-> <<"r">>,
                              version |-> v])
            /\ pc' = IF \A j \in started \ {i} : analyses[j] # Pending
                     THEN (IF IsMulti THEN "aggregating" ELSE "responding")
                     ELSE pc
            /\ UNCHANGED response
  /\ UNCHANGED <<ruleVars, body, started, codeLookup, routeLookup, aggVars>>

BucketNext ==
  \/ ValidateMulti
  \/ \E i \in 1..Len(Targets) : AnalysisResolvesLocated(i)
  \/ AggregateEntries
  \/ DetectDuplicates

BucketSpec == BucketInit /\ [][BucketNext]_vars

\* loc.file matches the key: after removing a leading './' from both, they
\* are equal or one ends with '/' followed by the other.
MatchesKey(locFile, key) ==
  LET l == StripDotSlash(locFile)
      k == StripDotSlash(key)
  IN l = k \/ EndsWithSlash(l, k) \/ EndsWithSlash(k, l)

\* The buckets of the response that hold the diagnostic.
BucketsHolding(diag) ==
  {k \in BucketKeys(response.body.diagnosticsByFile) :
     \E j \in 1..Len(Bucket(response.body.diagnosticsByFile, k)) :
       Bucket(response.body.diagnosticsByFile, k)[j] = diag}

\* The rule with step (2) taken whenever the basename differs from the key.
BucketByDifferingBasename(key, locFile) ==
  IF locFile # Absent /\ MatchesKey(locFile, key) THEN key
  ELSE IF locFile # Absent /\ BaseName(StripDotSlash(locFile)) # key
       THEN BaseName(StripDotSlash(locFile))
       ELSE key

\* The rule with step (2) taken whenever the basename is not empty.
BucketByNonEmptyBasename(key, locFile) ==
  IF locFile # Absent /\ MatchesKey(locFile, key) THEN key
  ELSE IF locFile # Absent /\ BaseName(StripDotSlash(locFile)) # EmptyString
       THEN BaseName(StripDotSlash(locFile))
       ELSE key

\* C20 as stated: a diagnostic whose loc.file matches the target's key goes
\* to the key's bucket; otherwise, if the basename of loc.file differs from
\* the key, to the bucket of that basename; otherwise to the key's bucket.
C20_Original ==
  MultiSuccess =>
    \A i \in 1..Len(analyses) : \A j \in 1..Len(analyses[i].diagnostics) :
      BucketsHolding(analyses[i].diagnostics[j])
        = {BucketByDifferingBasename(analyses[i].key, analyses[i].diagnostics[j].file)}

(***************************************************************************)
(* C20.  A diagnostic of a target is held by exactly one bucket: the       *)
(* target's key when loc.file matches the key ('./' removed from both,     *)
(* equal or one ending with '/' and the other); otherwise the basename of  *)
(* loc.file when that basename is not empty; otherwise (no loc.file, an    *)
(* empty one, or one ending in '/') the target's key.                      *)
(***************************************************************************)
C20_BucketSelection ==
  MultiSuccess =>
    \A i \in 1..Len(analyses) : \A j \in 1..Len(analyses[i].diagnostics) :
      BucketsHolding(analyses[i].diagnostics[j])
        = {BucketByNonEmptyBasename(analyses[i].key, analyses[i].diagnostics[j].file)}

\* A diagnostic located in a directory path ('src/') was put in the bucket
\* of its target's key, A.tsx.
C20_Witness ==
  /\ MultiSuccess
  /\ analyses[1].key = <<"A.tsx">>
  /\ analyses[1].diagnostics[1].file = <<"src", "">>
  /\ BucketsHolding(analyses[1].diagnostics[1]) = {<<"A.tsx">>}

(***************************************************************************)
(* The analysis request of a target (createAnalysisRequest), as a function *)
(* of the target, the scenario and the shared context.                     *)
(***************************************************************************)
RequestFileNames ==
  { <<"page.tsx">>, <<"app", "page.tsx">>, <<"app", "shop", "cart", "layout.tsx">>,
    <<"route.ts">>, <<"app", "api", "route.ts">>, <<"", "loading.tsx">>,
    <<"Widget.tsx">>, <<"mypage.tsx">>, <<"app", "page.tsx", "Widget.tsx">>,
    <<"app", "page.jsx">>, <<"components", "error.tsx">> }

SuppliedConfig == [dynamic |-> StringValue("force-static")]
SharedConfig == [revalidate |-> NumberValue("10")]

\* {}: a context without keys
EmptyContext == << >>

TargetContexts ==
  { NoContext, EmptyContext,
    [routeConfig |-> SuppliedConfig],
    [routeConfig |-> SuppliedConfig, route |-> <<"", "shop">>],
    [routeConfig |-> NullConfig],
    [route |-> <<"", "shop">>],
    [clientBundles |-> <<[filePath |-> <<"A.tsx">>, chunks |-> << <<"lib.js">> >>]>>] }

RequestSharedContexts ==
  { NoContext,
    [routeConfig |-> SharedConfig, route |-> <<"", "cart">>],
    [reactVersion |-> "19"] }

Scenarios == {Absent, <<"route-config">>, <<"duplicate-dependencies">>}

CodeWithExports(exports) ==
  [defined |-> TRUE, blank |-> FALSE, imports |-> << >>, exports |-> exports]

RequestCodes ==
  { CodePlain,
    CodeWithExports(<<[name |-> "dynamic", raw |-> "'force-dynamic'"],
                      [name |-> "revalidate", raw |-> "60 * 60"]>>),
    CodeWithExports(<<[name |-> "revalidate", raw |-> "false"],
                      [name |-> "runtime", raw |-> "RUNTIME"],
                      [name |-> "dynamic", raw |-> "'force-dynamic'"],
                      [name |-> "dynamic", raw |-> "'auto'"],
                      [name |-> "preferredRegion", raw |-> "60"]>>),
    CodeWithExports(<<[name |-> "revalidate", raw |-> "'force-dynamic'"],
                      [name |-> "runtime", raw |-> "\"edge\""]>>) }

RequestCalls ==
  [fn : {"createAnalysisRequest"},
   target : [falsy : {FALSE}, fileKey : {Absent}, fileName : RequestFileNames,
             code : RequestCodes, context : TargetContexts],
   scenario : Scenarios,
   sharedContext : RequestSharedContexts]

RequestInit ==
  /\ call \in RequestCalls
  /\ ruleCall = NoCall
  /\ body = [analysisTargets |-> << >>, context |-> NoContext, code |-> NoCode,
             fileName |-> Absent, fileKey |-> Absent]
  /\ HandlerStart

\* The call computes the merged context, the sanitized context and the
\* request.
CreateAnalysisRequest ==
  /\ pc = "received"
  /\ call.fn = "createAnalysisRequest"
  /\ LET effective == buildTargetContext(call.target, call.sharedContext)
     IN returned' =
          [effective |-> effective,
           sanitized |-> sanitizeContextForTarget(effective, call.target.fileName),
           request |-> createAnalysisRequest(call.target, call.scenario,
                                             call.sharedContext)]
  /\ pc' = "returned"
  /\ UNCHANGED <<call, ruleCall, ruleDiagnostics>>
  /\ UNCHANGED handlerVars

RequestNext == CreateAnalysisRequest

RequestSpec == RequestInit /\ [][RequestNext]_vars

RequestCreated == pc = "returned" /\ call.fn = "createAnalysisRequest"

\* The keys of a context; none when the context is absent.
KeysOf(context) == IF context = NoContext THEN {} ELSE DOMAIN context

\* The file name is page.tsx, layout.tsx, default.tsx, template.tsx,
\* error.tsx, loading.tsx or route.ts, or ends with '/' and one of them.
NamesRouteSegment(fileName) ==
  fileName[Len(fileName)] \in
    {"page.tsx", "layout.tsx", "default.tsx", "template.tsx", "error.tsx",
     "loading.tsx", "route.ts"}

(***************************************************************************)
(* C21.  Sanitization keeps routeConfig in a target's context if and only  *)
(* if the target's file name is a route-segment file name, exactly or      *)
(* after a '/', at any depth; every other key of the context is passed     *)
(* through with its value, and no key is added.                            *)
(***************************************************************************)
C21_RouteConfigKeptForSegmentFiles ==
  (RequestCreated /\ returned.effective # NoContext) =>
    LET effective == returned.effective
        sanitized == returned.sanitized
    IN /\ "routeConfig" \in DOMAIN effective =>
            ("routeConfig" \in KeysOf(sanitized)
               <=> NamesRouteSegment(call.target.fileName))
       /\ KeysOf(sanitized) \subseteq DOMAIN effective
       /\ (DOMAIN effective) \ {"routeConfig"} \subseteq KeysOf(sanitized)
       /\ \A k \in KeysOf(sanitized) : sanitized[k] = effective[k]

\* routeConfig was kept for a layout file three directories deep, with the
\* other key of its context.
C21_Witness ==
  /\ RequestCreated
  /\ call.target.fileName = <<"app", "shop", "cart", "layout.tsx">>
  /\ DOMAIN returned.effective = {"routeConfig", "route"}
  /\ DOMAIN returned.sanitized = {"routeConfig", "route"}

\* routeConfig was removed for a file in a directory named page.tsx, and the
\* other key was passed through.
C21_StrippedWitness ==
  /\ RequestCreated
  /\ call.target.fileName = <<"app", "page.tsx", "Widget.tsx">>
  /\ DOMAIN returned.effective = {"routeConfig", "route"}
  /\ DOMAIN returned.sanitized = {"route"}

(***************************************************************************)
(* C22.  The effective context of a target is the shared context overlaid  *)
(* by the target's own: a key of the target's context has the target's     *)
(* value, a key of the shared context only has the shared value, there are *)
(* no other keys, and the context is absent exactly when both are absent.  *)
(***************************************************************************)
C22_TargetContextOverlaysShared ==
  RequestCreated =>
    LET own == call.target.context
        shared == call.sharedContext
        effective == returned.effective
    IN /\ effective = NoContext <=> (own = NoContext /\ shared = NoContext)
       /\ KeysOf(effective) = KeysOf(own) \cup KeysOf(shared)
       /\ \A k \in KeysOf(own) : effective[k] = own[k]
       /\ \A k \in KeysOf(shared) \ KeysOf(own) : effective[k] = shared[k]

\* Both contexts had routeConfig and route; the target's values won, and
\* nothing else was in the result.
C22_Witness ==
  /\ RequestCreated
  /\ call.target.context = [routeConfig |-> SuppliedConfig, route |-> <<"", "shop">>]
  /\ call.sharedContext = [routeConfig |-> SharedConfig, route |-> <<"", "cart">>]
  /\ returned.effective = [routeConfig |-> SuppliedConfig, route |-> <<"", "shop">>]

\* C30 as stated: in the 'route-config' scenario a routeConfig that survives
\* sanitization is replaced by the one parsed from the target's code; in any
\* other scenario, or none, the context's routeConfig is passed through.
C30_Original ==
  RequestCreated =>
    LET sanitized == returned.sanitized
        context == returned.request.context
    IN IF call.scenario = <<"route-config">> /\ "routeConfig" \in KeysOf(sanitized)
       THEN /\ DOMAIN context = DOMAIN sanitized
            /\ context.routeConfig = parseRouteConfigFromCode(call.target.code)
            /\ \A k \in (DOMAIN context) \ {"routeConfig"} : context[k] = sanitized[k]
       ELSE context = sanitized

(***************************************************************************)
(* C30.  In the 'route-config' scenario, when routeConfig survives         *)
(* sanitization and is not null, the routeConfig of the request is the one *)
(* parsed from the target's code, whatever the context supplied, and the   *)
(* other keys are those of the sanitized context; when it is null, and in  *)
(* any other scenario, or none, the request's context is the sanitized     *)
(* context.                                                                *)
(***************************************************************************)
C30_RouteConfigReparsedInScenario ==
  RequestCreated =>
    LET sanitized == returned.sanitized
        context == returned.request.context
    IN IF /\ call.scenario = <<"route-config">>
          /\ "routeConfig" \in KeysOf(sanitized)
          /\ sanitized.routeConfig # NullConfig
       THEN /\ DOMAIN context = DOMAIN sanitized
            /\ context.routeConfig = parseRouteConfigFromCode(call.target.code)
            /\ \A k \in (DOMAIN context) \ {"routeConfig"} : context[k] = sanitized[k]
       ELSE context = sanitized

\* For a page whose code declares revalidate = false, an unquoted runtime,
\* dynamic twice and an unquoted preferredRegion, the supplied routeConfig
\* was replaced by {revalidate: false, dynamic: 'auto'}.
C30_Witness ==
  /\ RequestCreated
  /\ call.scenario = <<"route-config">>
  /\ call.target.fileName = <<"app", "page.tsx">>
  /\ call.target.context = [routeConfig |-> SuppliedConfig, route |-> <<"", "shop">>]
  /\ Len(RouteExports(call.target.code)) = 5
  /\ returned.request.context =
       [routeConfig |-> [revalidate |-> FalseValue, dynamic |-> StringValue("auto")],
        route |-> <<"", "shop">>]

\* The source texts a component path can stand for: the code of every target
\* whose file name or key has the component's basename.
ComponentSources(componentPath) ==
  {Targets[i].code : i \in {j \in 1..Len(Targets) :
      \/ BaseName(Targets[j].fileName) = BaseName(componentPath)
      \/ (Targets[j].fileKey # Absent
            /\ BaseName(Targets[j].fileKey) = BaseName(componentPath))}}

\* The import the stated rule chooses: the first whose specifier is the chunk
\* identifier, else the first that matches the chunk's basename or its name
\* without extension, else the first import.
StatedSpecifier(imports, chunk) ==
  LET exact == {i \in 1..Len(imports) : imports[i].spec = chunk}
      loose == {i \in 1..Len(imports) : specifierMatches(imports[i].spec, chunk)}
  IN IF exact # {} THEN imports[First(exact)]
     ELSE IF loose # {} THEN imports[First(loose)]
     ELSE imports[1]

PositionedAsStated(d) ==
  \E code \in ComponentSources(d.identity[1]) :
    /\ Len(code.imports) > 0
    /\ d.diag.range = <<StatedSpecifier(code.imports, d.identity[2]).from,
                        StatedSpecifier(code.imports, d.identity[2]).to>>

(***************************************************************************)
(* C23.  Every diagnostic of the detector is positioned at an import       *)
(* specifier of its component's source text: the first import whose        *)
(* specifier is the chunk identifier, else the first that matches the      *)
(* chunk's basename or its name without extension, else the first import;  *)
(* the range is that specifier's start and end.                            *)
(***************************************************************************)
C23_PositionedAtImportSpecifier ==
  MultiSuccess =>
    \A i \in 1..Len(duplicateDiagnostics) : PositionedAsStated(duplicateDiagnostics[i])

\* The two ways the detector leaves the stated rule: a component whose source
\* has an import gets a different import's range; a component without source
\* or without imports gets the range 0..0.
C23_OtherImportChosen ==
  MultiSuccess =>
    \A i \in 1..Len(duplicateDiagnostics) :
      (\E code \in ComponentSources(duplicateDiagnostics[i].identity[1]) :
          Len(code.imports) > 0)
        => PositionedAsStated(duplicateDiagnostics[i])
C23_NoImportToPointAt ==
  MultiSuccess =>
    \A i \in 1..Len(duplicateDiagnostics) :
      duplicateDiagnostics[i].diag.range # <<0, 0>>

(***************************************************************************)
(* The scenario steps of analyzeTargetPayload as functions of their         *)
(* arguments.                                                              *)
(***************************************************************************)
ExpandInputs ==
  {CoarseAt(m, <<"demo.tsx">>) : m \in CoarseMessages}
  \cup {CoarseAt(Coarse(Listed("lodash", "Footer")), f) :
          f \in {<<"components", "Header.tsx">>, <<"MyHeader.tsx">>, <<"Unknown.tsx">>,
                 <<"Empty.tsx">>}}
  \cup {PlainSuggestion, LocatedAt(<<"demo.tsx">>), LocatedAt(<<"Header.tsx">>),
        UnpositionedAt(<<"components", "Header.tsx">>),
        UnpositionedAt(<<"Legacy.tsx">>),
        [UnpositionedAt(<<"Empty.tsx">>) EXCEPT !.range = Absent],
        UnpositionedAt(Absent),
        [PlainSuggestion EXCEPT !.loc = TRUE],
        [CoarseAt(Coarse(Listed("lodash", "Footer")), Absent) EXCEPT !.range = <<0, 1>>],
        CoarseAt(Coarse(Listed("lodash", "Footer")), Absent),
        [CoarseAt(Coarse(Listed("lodash", "Footer")), Absent) EXCEPT !.loc = FALSE]}

ExpandCalls ==
  [fn : {"expandDuplicateDependenciesDiagnostics"},
   diagnostics : SeqsUpTo(ExpandInputs, MaxExpandDiags),
   scenario : {<<"duplicate-dependencies">>, <<"route-config">>, <<"real-world-app">>,
               <<"no-such-scenario">>}]
  \cup
  [fn : {"analyzeTargetPayload"},
   diagnostics : SeqsUpTo(ExpandInputs, MaxExpandDiags),
   scenario : {Absent, EmptyString, <<"duplicate-dependencies">>, <<"route-config">>,
               <<"real-world-app">>, <<"no-such-scenario">>}]

ExpandInit ==
  /\ call \in ExpandCalls
  /\ ruleCall = NoCall
  /\ body = [analysisTargets |-> << >>, context |-> NoContext, code |-> NoCode,
             fileName |-> Absent, fileKey |-> Absent]
  /\ HandlerStart

ExpandDiagnostics ==
  /\ pc = "received"
  /\ call.fn = "expandDuplicateDependenciesDiagnostics"
  /\ returned' =
       IF expandDuplicateDependenciesDiagnosticsThrows(call.diagnostics, call.scenario)
       THEN [threw |-> TRUE]
       ELSE [threw |-> FALSE,
             parts |-> expansionParts(call.diagnostics, call.scenario),
             expanded |->
               expandDuplicateDependenciesDiagnostics(call.diagnostics, call.scenario)]
  /\ pc' = "returned"
  /\ UNCHANGED <<call, ruleCall, ruleDiagnostics>>
  /\ UNCHANGED handlerVars

\* The scenario steps analyzeTargetPayload applies to the analyzer's
\* diagnostics.
ProcessScenarioDiagnostics ==
  /\ pc = "received"
  /\ call.fn = "analyzeTargetPayload"
  /\ returned' =
       IF scenarioDiagnosticsThrows(call.diagnostics, call.scenario)
       THEN [threw |-> TRUE]
       ELSE [threw |-> FALSE,
             diagnostics |-> scenarioDiagnostics(call.diagnostics, call.scenario)]
  /\ pc' = "returned"
  /\ UNCHANGED <<call, ruleCall, ruleDiagnostics>>
  /\ UNCHANGED handlerVars

ExpandNext == ExpandDiagnostics \/ ProcessScenarioDiagnostics

ExpandSpec == ExpandInit /\ [][ExpandNext]_vars


ExpansionReturned ==
  /\ pc = "returned"
  /\ call.fn = "expandDuplicateDependenciesDiagnostics"
  /\ ~returned.threw

\* The packages a coarse message lists: every name followed by its importers.
ListedPackages(message) ==
  {message[j - 1] : j \in {k \in 2..Len(message) : message[k] = ALSO_IMPORTED_BY}}

\* The source of the file a coarse diagnostic belongs to, << >> when the
\* scenario has none.
OwningSource(scenario, diag) ==
  IF diag.file = <<"demo.tsx">> THEN <<scenario.code>>
  ELSE IF findContextFile(scenario, diag.file) = << >> THEN << >>
  ELSE <<findContextFile(scenario, diag.file)[1].code>>
SourceFound(scenario, diag) ==
  OwningSource(scenario, diag) # << >> /\ TruthyCode(OwningSource(scenario, diag)[1])

RECURSIVE AtImportsOf(_, _, _)
AtImportsOf(diag, imports, packages) ==
  IF imports = << >> THEN << >>
  ELSE (IF Len(Head(imports).spec) = 1 /\ Head(imports).spec[1] \in packages
        THEN <<[diag EXCEPT !.range = <<Head(imports).from, Head(imports).to>>]>>
        ELSE << >>)
       \o AtImportsOf(diag, Tail(imports), packages)

IsCoarse(diag) == diag.rule = "duplicate-dependencies"
ImportedPackages(source, packages) ==
  {p \in packages : \E i \in 1..Len(source.imports) : source.imports[i].spec = <<p>>}

\* C24: in a scenario's analysis, a coarse duplicate-dependencies diagnostic
\* whose message lists several packages is replaced by one diagnostic for
\* each listed package that a top-level import of the owning file names,
\* positioned at that import's specifier, and the diagnostics of other rules
\* pass through unchanged in their original relative order.
C24_CoarseReplacedPerListedPackage ==
  (ExpansionReturned /\ findScenario(call.scenario) # << >>) =>
    LET scenario == findScenario(call.scenario)[1]
        diagnostics == call.diagnostics
        stated == [i \in 1..Len(diagnostics) |->
                     IF ~IsCoarse(diagnostics[i]) THEN <<diagnostics[i]>>
                     ELSE IF /\ Cardinality(ListedPackages(diagnostics[i].message)) >= 2
                             /\ SourceFound(scenario, diagnostics[i])
                     THEN AtImportsOf(diagnostics[i],
                                      OwningSource(scenario, diagnostics[i])[1].imports,
                                      ListedPackages(diagnostics[i].message))
                     ELSE returned.parts[i]]
    IN returned.expanded = Concat(stated)

\* A coarse diagnostic listing two imported packages was replaced by both.
C24_ReplacedByBoth ==
  /\ ExpansionReturned
  /\ \E i \in 1..Len(call.diagnostics) :
       /\ IsCoarse(call.diagnostics[i])
       /\ Len(returned.parts[i]) = 2

\* A call of the expansion for a known scenario with a coarse diagnostic
\* among its arguments has ended, by returning or by throwing.
ExpansionEnded ==
  /\ pc = "returned"
  /\ call.fn = "expandDuplicateDependenciesDiagnostics"
  /\ findScenario(call.scenario) # << >>
  /\ \E i \in 1..Len(call.diagnostics) : IsCoarse(call.diagnostics[i])

\* What C29 states of the result of a call that returned.
UnmatchedRemovedUnfoundKept ==
  LET scenario == findScenario(call.scenario)[1]
      diagnostics == call.diagnostics
  IN /\ returned.expanded = Concat(returned.parts)
     /\ \A i \in 1..Len(diagnostics) :
          IsCoarse(diagnostics[i]) =>
            /\ (/\ SourceFound(scenario, diagnostics[i])
                /\ ImportedPackages(OwningSource(scenario, diagnostics[i])[1],
                                    duplicatedPackages(diagnostics[i].message)) = {})
                 => returned.parts[i] = << >>
            /\ ~SourceFound(scenario, diagnostics[i])
                 => returned.parts[i] = <<diagnostics[i]>>

C29_HoldsWhereExpansionReturns ==
  (ExpansionEnded /\ ~returned.threw) => UnmatchedRemovedUnfoundKept

\* One coarse diagnostic whose message does not parse was removed and one
\* whose file has no source was kept.
C29_Witness ==
  /\ ExpansionReturned
  /\ Len(call.diagnostics) = 2
  /\ call.diagnostics[1] = CoarseAt(<<"shares 3 dependencies">>, <<"demo.tsx">>)
  /\ call.diagnostics[2].file = <<"Unknown.tsx">>
  /\ returned.expanded = <<call.diagnostics[2]>>

\* A coarse diagnostic without loc was kept under a scenario with context
\* files.
C29_NoLocKept ==
  /\ ExpansionReturned
  /\ call.scenario = <<"real-world-app">>
  /\ Len(call.diagnostics) = 1
  /\ IsCoarse(call.diagnostics[1])
  /\ ~call.diagnostics[1].loc
  /\ returned.expanded = call.diagnostics

\* The lookup threw for a single coarse diagnostic whose loc is {}.
C29_EmptyLocThrew ==
  /\ ExpansionEnded
  /\ call.diagnostics = <<CoarseAt(Coarse(Listed("lodash", "Footer")), Absent)>>
  /\ call.scenario = <<"real-world-app">>
  /\ returned.threw

\* A coarse diagnostic naming only a package the file does not import was
\* removed.
C29_UnimportedRemoved ==
  /\ ExpansionReturned
  /\ call.diagnostics = <<CoarseAt(Coarse(Listed("moment", "Footer")), <<"demo.tsx">>)>>
  /\ call.scenario = <<"duplicate-dependencies">>
  /\ returned.expanded = << >>


(***************************************************************************)
(* C25.  The analyses of a multi-target request complete in any order.     *)
(* Nothing is aggregated while an analysis is outstanding; the results are *)
(* consumed in the request's target order, so the buckets stand in the     *)
(* order in which the targets first filled them; the detector's           *)
(* diagnostics come after every per-target diagnostic, in their bucket and *)
(* among the buckets; and the response is the one computed from the        *)
(* request and the per-target outputs alone, whatever the completion order.*)
(***************************************************************************)
\* The handler on requests whose targets are A.tsx and B.tsx, which share
\* a chunk, and app/page.tsx, and on the single-target requests.
OrderTargets == {TargetA, TargetB, TargetPage}
OrderRequests ==
  {[analysisTargets |-> ts, context |-> NoContext, code |-> NoCode, fileName |-> Absent,
    fileKey |-> Absent] : ts \in SeqsUpTo(OrderTargets, MaxTargets) \ {<< >>}}
  \cup SingleRequests

OrderInit ==
  /\ body \in OrderRequests
  /\ ruleCall = NoCall
  /\ call = NoCall
  /\ HandlerStart

OrderSpec == OrderInit /\ [][Next]_vars

\* The handler on the requests of a scenario: demo.tsx alone or with A.tsx
\* and B.tsx, as one target or as a list of targets.
ScenarioDemo ==
  [falsy |-> FALSE, fileKey |-> Absent, fileName |-> <<"demo.tsx">>, code |-> DemoCode,
   context |-> NoContext]
ScenarioRequests ==
  {[analysisTargets |-> ts, context |-> NoContext, code |-> NoCode, fileName |-> Absent,
    fileKey |-> Absent, scenario |-> s] :
     ts \in SeqsUpTo({ScenarioDemo, TargetA, TargetB}, MaxTargets) \ {<< >>},
     s \in {<<"duplicate-dependencies">>, <<"real-world-app">>}}
  \cup
  {[analysisTargets |-> << >>, context |-> NoContext, code |-> c,
    fileName |-> <<"demo.tsx">>, fileKey |-> Absent, scenario |-> s] :
     c \in {NoCode, DemoCode},
     s \in {<<"duplicate-dependencies">>, <<"real-world-app">>}}

ScenarioInit ==
  /\ body \in ScenarioRequests
  /\ ruleCall = NoCall
  /\ call = NoCall
  /\ HandlerStart

ScenarioSpec == ScenarioInit /\ [][Next]_vars

Outstanding == \E i \in started : analyses[i] = Pending
NothingAggregated ==
  /\ diagnosticsByFile = << >>
  /\ durationsByFile = EmptyMap
  /\ rulesExecutedSet = << >>
  /\ totalDuration = 0

FirstTargetOf(b) == First(Contributors(b))
InTargetOrder(dbf) ==
  \A p, q \in 1..Len(dbf) :
    (p < q /\ Contributors(dbf[p].key) # {} /\ Contributors(dbf[q].key) # {}) =>
      FirstTargetOf(dbf[p].key) <= FirstTargetOf(dbf[q].key)
FromDetector(diag) == diag.rule = DUPLICATE_RULE
DetectorComesLast(dbf) ==
  /\ \A b \in 1..Len(dbf) :
       \A p, q \in 1..Len(dbf[b].diags) :
         (p < q /\ FromDetector(dbf[b].diags[p])) => FromDetector(dbf[b].diags[q])
  /\ \A p, q \in 1..Len(dbf) :
       (p < q /\ Contributors(dbf[p].key) = {}) => Contributors(dbf[q].key) = {}

C25_AggregationAfterAllInTargetOrder ==
  IsMulti =>
    /\ (Outstanding \/ pc \in {"received", "analyzing"}) => NothingAggregated
    /\ pc \in {"aggregating", "detecting"} => AllAnalysed
    /\ pc = "detecting" =>
         /\ InTargetOrder(diagnosticsByFile)
         /\ \A b \in 1..Len(diagnosticsByFile) :
              \A d \in 1..Len(diagnosticsByFile[b].diags) :
                ~FromDetector(diagnosticsByFile[b].diags[d])
    /\ (MultiSuccess /\ AllAnalysed) =>
         /\ InTargetOrder(response.body.diagnosticsByFile)
         /\ DetectorComesLast(response.body.diagnosticsByFile)
         /\ response = RerunResponse(body, analyses)

\* A response in which two targets filled two buckets and the detector
\* added its diagnostic after a target's own in one of them.
C25_Witness ==
  /\ MultiSuccess
  /\ AllAnalysed
  /\ Len(Targets) = 2
  /\ LET dbf == response.body.diagnosticsByFile
     IN /\ \E p, q \in 1..Len(dbf) :
             /\ p < q
             /\ Contributors(dbf[p].key) = {1}
             /\ Contributors(dbf[q].key) = {2}
        /\ \E b \in 1..Len(dbf) :
             /\ Len(dbf[b].diags) >= 2
             /\ ~FromDetector(dbf[b].diags[1])
             /\ FromDetector(dbf[b].diags[Len(dbf[b].diags)])


(***************************************************************************)
(* C26.  When the analysis of any one target throws, the whole request is  *)
(* answered with INTERNAL_ERROR (500) and no diagnostics of any target,    *)
(* those of the targets whose analysis had succeeded included: a response  *)
(* never mixes the successes with the failure, and a success response is   *)
(* given only when every analysis has succeeded.                           *)
(***************************************************************************)
C26_OneFailureFailsTheRequest ==
  /\ (Done /\ Outstanding) =>
       /\ response.status = 500
       /\ response.body.error.code = "INTERNAL_ERROR"
       /\ response.body.diagnostics = << >>
       /\ "diagnosticsByFile" \notin DOMAIN response.body
       /\ "durationsByFile" \notin DOMAIN response.body
  /\ (Done /\ response.status = 200) => ~Outstanding /\ AllAnalysed

\* The analysis of one of two targets had returned diagnostics when that of
\* the other threw.
C26_Witness ==
  /\ Done
  /\ IsMulti
  /\ Len(analyses) = 2
  /\ \E i, j \in 1..2 :
       /\ analyses[i] # Pending
       /\ Len(analyses[i].diagnostics) > 0
       /\ analyses[j] = Pending
  /\ response.status = 500
  /\ response.body.diagnostics = << >>


(***************************************************************************)
(* C27.  Every diagnostic of the detector is placed in the bucket keyed by *)
(* the basename of its component path, whatever the keys of the targets    *)
(* are: also when a target's key is the full component path, the           *)
(* diagnostic is in the bucket of the basename and not in the target's.    *)
(***************************************************************************)
ComponentPathOf(result) == result.identity[1]
LastSegment(path) == <<path[Len(path)]>>
BucketHolds(dbf, k, diag) ==
  \E b \in 1..Len(dbf) :
    dbf[b].key = k /\ \E d \in 1..Len(dbf[b].diags) : dbf[b].diags[d] = diag

C27_DetectorBucketIsBasename ==
  MultiSuccess =>
    LET dbf == response.body.diagnosticsByFile
    IN /\ \A k \in 1..Len(duplicateDiagnostics) :
            BucketHolds(dbf, LastSegment(ComponentPathOf(duplicateDiagnostics[k])),
                        duplicateDiagnostics[k].diag)
       /\ \A b \in 1..Len(dbf) :
            \A d \in 1..Len(dbf[b].diags) :
              FromDetector(dbf[b].diags[d]) =>
                \E k \in 1..Len(duplicateDiagnostics) :
                  /\ duplicateDiagnostics[k].diag = dbf[b].diags[d]
                  /\ dbf[b].key = LastSegment(ComponentPathOf(duplicateDiagnostics[k]))

\* The target's key is the component path app/products/C.tsx; its own
\* bucket holds nothing and the detector's diagnostic is in bucket C.tsx.
C27_Witness ==
  /\ MultiSuccess
  /\ \E i \in 1..Len(Targets) : KeyOf(Targets[i]) = <<"app", "products", "C.tsx">>
  /\ LET dbf == response.body.diagnosticsByFile
     IN /\ \E b \in 1..Len(dbf) :
             dbf[b].key = <<"app", "products", "C.tsx">> /\ dbf[b].diags = << >>
        /\ \E k \in 1..Len(duplicateDiagnostics) :
             /\ ComponentPathOf(duplicateDiagnostics[k]) = <<"app", "products", "C.tsx">>
             /\ BucketHolds(dbf, <<"C.tsx">>, duplicateDiagnostics[k].diag)


(***************************************************************************)
(* C28.  Assigning the detector's diagnostics changes neither the          *)
(* top-level duration nor any durationsByFile entry the per-target         *)
(* aggregation made; its only effect on the durations is an entry of       *)
(* value 0 for a bucket that receives a detector diagnostic and had none.  *)
(***************************************************************************)
DurationsBeforeDetection ==
  aggregateEntries([dbf |-> << >>, durs |-> EmptyMap, keys |-> EmptyMap,
                    contribs |-> EmptyMap], analyses, 1).durs
ReceivesFromDetector(dbf, k) ==
  \E b \in 1..Len(dbf) :
    dbf[b].key = k /\ \E d \in 1..Len(dbf[b].diags) : FromDetector(dbf[b].diags[d])

C28_DetectorLeavesDurations ==
  /\ (IsMulti /\ pc = "detecting") => durationsByFile = DurationsBeforeDetection
  /\ (MultiSuccess /\ AllAnalysed) =>
       LET before == DurationsBeforeDetection
           after == response.body.durationsByFile
           dbf == response.body.diagnosticsByFile
       IN /\ response.body.duration = SeqSum(DurationOf)
          /\ \A k \in DOMAIN before : k \in DOMAIN after /\ after[k] = before[k]
          /\ \A k \in DOMAIN after \ DOMAIN before :
               after[k] = 0 /\ ReceivesFromDetector(dbf, k)
          /\ \A b \in 1..Len(dbf) :
               ReceivesFromDetector(dbf, dbf[b].key) => dbf[b].key \in DOMAIN after

\* The detector placed diagnostics in a bucket with a duration entry of its
\* own and in a bucket without one.
C28_Witness ==
  /\ MultiSuccess
  /\ AllAnalysed
  /\ LET before == DurationsBeforeDetection
         after == response.body.durationsByFile
         dbf == response.body.diagnosticsByFile
     IN /\ \E k \in DOMAIN before :
             before[k] > 0 /\ after[k] = before[k] /\ ReceivesFromDetector(dbf, k)
        /\ \E k \in DOMAIN after \ DOMAIN before :
             after[k] = 0 /\ ReceivesFromDetector(dbf, k)

====
